---- MODULE Spec2Model ----
(***************************************************************************)
(* Model of the invoice ingestion engine of medellin_sae: the Somex SFTP   *)
(* batch pipeline (ProcessingWorker.run, SomexProcessorService,            *)
(* SomexRepository), the Somex UBL and PDF parsers, and the mail pipeline  *)
(* (ProcessInvoicesUseCase with UBLXMLParser).                             *)
(***************************************************************************)
EXTENDS Integers, Sequences, FiniteSets, TLC

(***************************************************************************)
(* Bounds of the model.                                                    *)
(***************************************************************************)
\* XML entries the SFTP server hands out over a whole behaviour
MaxServed == 3
\* ZIP files listed in /DocumentosPendientes for one run
MaxZips == 2
\* runs of the Somex worker in one behaviour
MaxRuns == 2

(***************************************************************************)
(* Texts of XML elements.  An element is absent (NoElem) or carries a      *)
(* text; " " stands for a text made of white space only.                   *)
(***************************************************************************)
NoElem == "<absent>"
None == [none |-> TRUE]
\* an exception was raised
Raised == [raised |-> TRUE]

\* str.strip() on the texts of the model
Strip(t) ==
    CASE t = " " -> ""
      [] t = " Producto " -> "Producto"
      [] OTHER -> t

\* str.lower() on the texts of the model
Lower(t) ==
    CASE t = "Producto" -> "producto"
      [] t = "PRODUCTO" -> "producto"
      [] t = "ARROZ" -> "arroz"
      [] t = "Peso" -> "peso"
      [] OTHER -> t

\* somex_processor_service.py:559  _get_text, applied to the element the
\* XPath finds (NoElem when find() returns None)
get_text(elem) ==
    IF elem # NoElem /\ elem # "" THEN Strip(elem) ELSE ""

(***************************************************************************)
(* decimal.Decimal(str): the numeric texts of the model and their values;  *)
(* any other text raises InvalidOperation.                                 *)
(***************************************************************************)
DecimalTable ==
    [t \in {"-1", "0", "1", "2", "40", "100000"} |->
        CASE t = "-1" -> -1 [] t = "0" -> 0 [] t = "1" -> 1 [] t = "2" -> 2
          [] t = "40" -> 40 [] t = "100000" -> 100000]

IsDecimal(t) == t \in DOMAIN DecimalTable

\* exact quotient a / b of two Decimals, kept as a fraction
DecimalDiv(a, b) == [num |-> a, den |-> b]
DecimalZero == [num |-> 0, den |-> 1]

(***************************************************************************)
(* Product names and the group captured by the pattern                     *)
(* [Xx]\s*(\d+(?:\.\d+)?)\s*[Kk][Ii][Ll] in each of them.                   *)
(***************************************************************************)
NoMatch == "<nomatch>"

KilosPattern(product_name) ==
    CASE product_name = "SAL SOMEX CEBA X 40 KILOS" -> "40"
      [] product_name = "sal x 2 kilos" -> "2"
      [] product_name = "MUESTRA X 0 KILOS" -> "0"
      [] OTHER -> NoMatch

\* somex_processor_service.py:386  _extract_kilos_from_name
extract_kilos_from_name(product_name) ==
    LET m == KilosPattern(product_name)
    IN  IF m # NoMatch THEN [none |-> FALSE, value |-> DecimalTable[m]] ELSE None

(***************************************************************************)
(* Somex UBL parser.                                                       *)
(***************************************************************************)
\* the unit price is read from the Price/PriceAmount of the document
parse_somex_line_item_price_amount(line) ==
    LET note == get_text(line.note)
        product_name == IF note = "" THEN get_text(line.description) ELSE note
        std == get_text(line.standardId)
        product_code == IF std = "" THEN get_text(line.sellersId) ELSE std
        quantity_str == get_text(line.quantity)
        taxable_amount_str == get_text(line.taxable)
        tax_percent_str == get_text(line.percent)
        price_str == get_text(line.price)
        raises == \/ (quantity_str # "" /\ ~IsDecimal(quantity_str))
                  \/ (taxable_amount_str # "" /\ ~IsDecimal(taxable_amount_str))
                  \/ (tax_percent_str # "" /\ ~IsDecimal(tax_percent_str))
    IN  IF raises THEN None
        ELSE
          LET quantity_original ==
                  IF quantity_str # "" THEN DecimalTable[quantity_str] ELSE 0
              kilos == extract_kilos_from_name(product_name)
              quantity_adjusted ==
                  IF kilos # None /\ kilos.value # 0
                  THEN quantity_original * kilos.value
                  ELSE quantity_original
          IN  [product_name |-> product_name,
               product_code |-> IF product_code = "" THEN "SPN-1" ELSE product_code,
               quantity |-> quantity_adjusted,
               quantity_original |-> quantity_original,
               quantity_adjusted |-> quantity_adjusted,
               unit_of_measure |-> "KG",
               unit_price |-> DecimalDiv(DecimalTable[price_str], 1),
               tax_percentage |->
                   IF tax_percent_str # "" THEN DecimalTable[tax_percent_str] ELSE 0,
               taxable_amount |->
                   IF taxable_amount_str # "" THEN DecimalTable[taxable_amount_str] ELSE 0]

\* somex_processor_service.py:415  _parse_somex_line_item
\* A line is a record of the texts of the elements the XPaths address.
parse_somex_line_item(line) ==
    LET note == get_text(line.note)
        product_name == IF note = "" THEN get_text(line.description) ELSE note
        std == get_text(line.standardId)
        product_code == IF std = "" THEN get_text(line.sellersId) ELSE std
        quantity_str == get_text(line.quantity)
        taxable_amount_str == get_text(line.taxable)
        tax_percent_str == get_text(line.percent)
        raises == \/ (quantity_str # "" /\ ~IsDecimal(quantity_str))
                  \/ (taxable_amount_str # "" /\ ~IsDecimal(taxable_amount_str))
                  \/ (tax_percent_str # "" /\ ~IsDecimal(tax_percent_str))
    IN  IF raises THEN None
        ELSE
          LET quantity_original ==
                  IF quantity_str # "" THEN DecimalTable[quantity_str] ELSE 0
              kilos == extract_kilos_from_name(product_name)
              quantity_adjusted ==
                  IF kilos # None /\ kilos.value # 0
                  THEN quantity_original * kilos.value
                  ELSE quantity_original
              taxable_amount ==
                  IF taxable_amount_str # "" THEN DecimalTable[taxable_amount_str] ELSE 0
              unit_price ==
                  IF quantity_adjusted > 0
                  THEN DecimalDiv(taxable_amount, quantity_adjusted)
                  ELSE DecimalZero
              tax_percentage ==
                  IF tax_percent_str # "" THEN DecimalTable[tax_percent_str] ELSE 0
          IN  [product_name |-> product_name,
               product_code |-> IF product_code = "" THEN "SPN-1" ELSE product_code,
               quantity |-> quantity_adjusted,
               quantity_original |-> quantity_original,
               quantity_adjusted |-> quantity_adjusted,
               unit_of_measure |-> "KG",
               unit_price |-> unit_price,
               tax_percentage |-> tax_percentage,
               taxable_amount |-> taxable_amount]

\* the items loop of _parse_somex_invoice (somex_processor_service.py:361):
\* a line that fails to parse is logged and left out
RECURSIVE somex_items(_)
somex_items(lines) ==
    IF lines = << >> THEN << >>
    ELSE LET item == parse_somex_line_item(Head(lines))
         IN  IF item # None
             THEN <<item>> \o somex_items(Tail(lines))
             ELSE somex_items(Tail(lines))

\* an invoice without items is given up as a failure
parse_somex_invoice_requires_items(tree) ==
    LET ref == get_text(tree.orderRefId)
        invoice_number == IF ref = "" THEN get_text(tree.firstId) ELSE ref
        items == somex_items(tree.lines)
    IN  IF items = << >> THEN None
        ELSE [invoice_number |-> invoice_number,
              seller_nit |-> "800221724",
              seller_name |-> "SOMEX S.A.S.",
              items |-> items]

\* somex_processor_service.py:289  _parse_somex_invoice
\* tree.firstId is the first cbc:ID element of the tree in document order.
parse_somex_invoice(tree) ==
    LET ref == get_text(tree.orderRefId)
        invoice_number == IF ref = "" THEN get_text(tree.firstId) ELSE ref
    IN  [invoice_number |-> invoice_number,
         seller_nit |-> "800221724",
         seller_name |-> "SOMEX S.A.S.",
         items |-> somex_items(tree.lines)]

\* somex_processor_service.py:235  _extract_embedded_invoice
\* The Description element is a record: present or not, its text empty or
\* not, whether the text carries literal CDATA markers, how the stripped
\* text starts, whether it holds the token "Invoice", and the tree lxml
\* builds from the text without markers (root "malformed" when it raises).
\* The text is parsed as it stands: with the markers it is no XML document.
extract_embedded_invoice(attached_doc_tree) ==
    LET d == attached_doc_tree.description
    IN  IF ~d.present \/ d.empty THEN None
        ELSE IF d.starts # "<?xml" /\ d.starts # "<" THEN None
        ELSE IF ~d.hasInvoice THEN None
        ELSE IF d.cdata \/ d.tree.root = "malformed" THEN None
        ELSE d.tree

\* somex_processor_service.py:194  parse_invoice_xml
\* xml is what etree.fromstring makes of the bytes; root "malformed" when
\* it raises XMLSyntaxError.
parse_invoice_xml(xml) ==
    IF xml.root = "malformed" THEN None
    ELSE IF xml.root = "AttachedDocument"
    THEN LET tree == extract_embedded_invoice(xml)
         IN  IF tree = None THEN None
             ELSE parse_somex_invoice(tree)
    ELSE parse_somex_invoice(xml)

(***************************************************************************)
(* Documents.  A document is its raw bytes together with what              *)
(* etree.fromstring makes of them.                                         *)
(***************************************************************************)
Line(note, quantity, taxable) ==
    [note |-> note, description |-> NoElem, standardId |-> NoElem,
     sellersId |-> NoElem, quantity |-> quantity, taxable |-> taxable,
     percent |-> NoElem, price |-> "2"]

InvoiceTree(orderRefId, firstId, lines) ==
    [root |-> "Invoice", orderRefId |-> orderRefId, firstId |-> firstId,
     lines |-> lines]

MalformedTree == [root |-> "malformed"]

\* an invoice with one line of 2 bultos of 40 kilos
DocA ==
    [bytes |-> <<1>>,
     xml |-> InvoiceTree("F-100", "SETT-1",
                 <<Line("SAL SOMEX CEBA X 40 KILOS", "2", "100000")>>)]
\* the same invoice exported again: one more byte, the same tree
DocARe == [bytes |-> <<1, 0>>, xml |-> DocA.xml]
\* a header without invoice lines
DocB == [bytes |-> <<0>>, xml |-> InvoiceTree(NoElem, "F-200", << >>)]
\* bytes that are not XML
DocM == [bytes |-> <<0, 1>>, xml |-> MalformedTree]

XmlDocs == {DocA, DocARe, DocB, DocM}

\* etree.fromstring(xml_content)
fromstring(xml_content) == xml_content.xml

\* the digest collapses the last byte into its neighbour: two contents collide
RECURSIVE get_xml_hash_colliding(_)
get_xml_hash_colliding(bytes) ==
    IF Len(bytes) <= 1 THEN 1
    ELSE 2 * get_xml_hash_colliding(SubSeq(bytes, 1, Len(bytes) - 1))
           + bytes[Len(bytes) - 1]

\* somex_repository.py:110  get_xml_hash: SHA-256 of the bytes, modelled as
\* a collision-free digest of the whole byte string
RECURSIVE get_xml_hash(_)
get_xml_hash(bytes) ==
    IF bytes = << >> THEN 1
    ELSE 2 * get_xml_hash(SubSeq(bytes, 1, Len(bytes) - 1)) + bytes[Len(bytes)]

(***************************************************************************)
(* State.                                                                  *)
(***************************************************************************)
VARIABLES
    ledger,         \* rows of table somex_processed_xml
    clock,          \* datetime.now()
    excel_files,    \* consolidated Excel files written to output_dir, by path
    served,         \* XML entries handed out so far
    runs,           \* worker runs started so far
    workers,        \* the worker threads that exist
    pc,             \* per worker: where run() stands
    zip_files,      \* per worker: number of ZIP files listed
    zip_idx,        \* per worker: index of the ZIP being handled
    xml_files,      \* per worker: the (filename, content) pairs of the last ZIP
    zip_results,    \* per worker: what the last process_zip_file returned
    total_results,  \* per worker: accumulated totals
    all_invoices,   \* per worker: invoices accumulated over the ZIPs
    excel_path,     \* per worker: path of the consolidated Excel, 0 if none
    mark_idx,       \* per worker: next invoice to mark
    signals,        \* per worker: terminal signals emitted by the run
    sftp_client,    \* per worker: self.sftp_client of the ProcessingWorker
    process_btn,    \* per worker: its tab's process_btn is enabled
    handled         \* per worker: signals of the run the tab's slots handled

bvars == <<sftp_client, process_btn, handled>>

svars == <<ledger, clock, excel_files, served, runs, workers, pc, zip_files,
           zip_idx, xml_files, zip_results, total_results, all_invoices,
           excel_path, mark_idx, signals, bvars>>

Workers == {1, 2}

VARIABLES
    p_input,        \* the document handed to a parser
    p_parsed,       \* what the parser returned for it
    p_results,      \* what process_zip_file returned for a ZIP holding it
    p_number        \* what _parse_colombian_number returned for a cell text

pvars == <<p_input, p_parsed, p_results, p_number>>

VARIABLES
    m_pc,           \* where ProcessInvoicesUseCase.execute stands
    m_runs,         \* calls of execute so far
    m_email_ids,    \* the ids search_emails returned
    m_idx,          \* index of the email being handled
    m_processed,    \* rows of table processed_emails
    m_attachments,  \* attachments of the last email that was handled
    m_invoices,     \* invoices of this call
    m_result,       \* the ProcessingResult of this call
    m_connected,    \* the IMAP connection is open
    m_csv,          \* CSV files written, each the invoices exported
    m_handled,      \* this call: per email of the loop, what was done with it
    m_failed        \* the emails whose handling raised in some call

mvars == <<m_pc, m_runs, m_email_ids, m_idx, m_processed, m_attachments,
           m_invoices, m_result, m_connected, m_csv, m_handled, m_failed>>

VARIABLES
    inventory,      \* PulgarinInventoryService.inventory: entries by normalized name
    inv_rows,       \* the data rows of the file of the last import_from_excel call
    inv_status,     \* how the last import_from_excel call ended
    inv_previous,   \* the names the index held when that call began
    u_input,        \* the document handed to UBLXMLParser.parse_invoice
    u_parsed        \* what parse_invoice returned for it

uvars == <<inventory, inv_rows, inv_status, inv_previous, u_input, u_parsed>>

VARIABLES
    db_schema,              \* the tables the database file holds
    t_somex_items,      \* rows of table somex_items
    t_processing_logs,  \* rows of table somex_processing_logs
    t_invoice_items,    \* rows of table somex_invoice_items
    repo_op                 \* the repository operation called last

rvars == <<db_schema, t_somex_items, t_processing_logs, t_invoice_items,
           repo_op>>

VARIABLES
    c_pc,           \* where SomexSftpClient.connect stands
    c_max_retries,  \* the max_retries of the call
    c_pwd,          \* the password the call uses
    c_attempt,      \* the loop variable attempt
    c_attempts,     \* iterations of the loop begun so far
    c_outcomes,     \* how each attempt ended, in order
    c_sleeps,       \* the arguments of time.sleep, in order
    c_result,       \* what connect returned
    c_ssh_client,   \* self.ssh_client
    c_sftp_client,  \* self.sftp_client
    c_connected     \* self.connected

cvars == <<c_pc, c_max_retries, c_pwd, c_attempt, c_attempts, c_outcomes, c_sleeps,
           c_result, c_ssh_client, c_sftp_client, c_connected>>

VARIABLES
    g_button,       \* ClientTab.process_btn is enabled
    g_auto,         \* ClientTab.auto_timer is active
    g_credentials,  \* ConfigTab holds an email and a password
    g_requests,     \* processing requests emitted so far
    g_started,      \* ProcessingWorker threads started so far
    g_workers,      \* MainWindow.workers[client_id]: a worker, or 0 for no entry
    g_running,      \* the workers whose run() has not returned
    g_pending,      \* the workers whose finished signal waits for the GUI thread
    g_closed        \* closeEvent accepted the close

gvars == <<g_button, g_auto, g_credentials, g_requests, g_started, g_workers,
           g_running, g_pending, g_closed>>

\* the variables of the components that stand beside the pipelines
ovars == <<rvars, cvars, gvars>>

(***************************************************************************)
(* SomexRepository.                                                        *)
(***************************************************************************)
\* somex_repository.py:114  is_xml_processed
is_xml_processed(led, xml_content) ==
    LET xml_hash == get_xml_hash(xml_content.bytes)
    IN  Cardinality({r \in led : r.xml_hash = xml_hash}) > 0

\* a plain INSERT: a second row for a hash that is already recorded
mark_xml_processed_insert(led, now, xml_content, filename, zip_filename, invoice_number, excel_file) ==
    led \cup {[xml_hash |-> get_xml_hash(xml_content.bytes),
               filename |-> filename, zip_filename |-> zip_filename,
               processed_at |-> now, invoice_number |-> invoice_number,
               excel_file |-> excel_file]}

\* somex_repository.py:131  mark_xml_processed: INSERT OR IGNORE under the
\* UNIQUE constraint on xml_hash
mark_xml_processed(led, now, xml_content, filename, zip_filename, invoice_number, excel_file) ==
    LET xml_hash == get_xml_hash(xml_content.bytes)
    IN  IF \E r \in led : r.xml_hash = xml_hash
        THEN led
        ELSE led \cup {[xml_hash |-> xml_hash,
                        filename |-> filename, zip_filename |-> zip_filename,
                        processed_at |-> now, invoice_number |-> invoice_number,
                        excel_file |-> excel_file]}

\* somex_repository.py:16  _init_database: the four tables
AllTables ==
    {"somex_items", "somex_processed_xml", "somex_processing_logs",
     "somex_invoice_items"}

\* DROP TABLE and CREATE TABLE: the table comes back empty
init_table_recreate(schema, name, rows, empty) == empty

\* somex_repository.py:24-84  CREATE TABLE IF NOT EXISTS: the rows of a table
\* that exists are kept, a missing table is created empty
init_table(schema, name, rows, empty) ==
    IF name \in schema THEN rows ELSE empty

\* somex_repository.py:156  save_item: INSERT ... ON CONFLICT(codigo_item,
\* referencia) DO UPDATE
save_item(items, item_data) ==
    {r \in items : ~(/\ r.codigo_item = item_data.codigo_item
                     /\ r.referencia = item_data.referencia)}
    \cup {item_data}

\* somex_repository.py:196  save_items_bulk
RECURSIVE save_items_bulk(_, _)
save_items_bulk(items, list) ==
    IF list = << >> THEN items
    ELSE save_items_bulk(save_item(items, Head(list)), Tail(list))

\* somex_repository.py:241  clear_all_items: DELETE FROM somex_items
clear_all_items(items) == {}

\* somex_repository.py:282  log_processing
log_processing(logs, now, level, message, xml_filename) ==
    Append(logs, [timestamp |-> now, level |-> level, message |-> message,
                  xml_filename |-> xml_filename])

\* somex_repository.py:304  save_invoice_items: an item whose number cannot
\* be converted by float() is left out, the others are inserted
RECURSIVE save_invoice_items(_, _, _, _, _, _)
save_invoice_items(rows, now, invoice_number, xml_filename, zip_filename, items) ==
    IF items = << >> THEN rows
    ELSE LET item == Head(items)
             saved == IF IsDecimal(item.quantity_original)
                      THEN Append(rows, [invoice_number |-> invoice_number,
                                         xml_filename |-> xml_filename,
                                         zip_filename |-> zip_filename,
                                         product_name |-> item.product_name,
                                         quantity_original |->
                                             DecimalTable[item.quantity_original],
                                         created_at |-> now])
                      ELSE rows
         IN  save_invoice_items(saved, now, invoice_number, xml_filename,
                                zip_filename, Tail(items))

(***************************************************************************)
(* SomexProcessorService.                                                  *)
(***************************************************************************)
EmptyResults(zip_filename, n) ==
    [zip_filename |-> zip_filename, total_xmls |-> n, processed_xmls |-> 0,
     skipped_xmls |-> 0, failed_xmls |-> 0, invoices |-> << >>]

\* the loop gives up at the first document that fails to parse
RECURSIVE process_xmls_abort(_, _, _)
process_xmls_abort(entries, results, led) ==
    IF entries = << >> THEN results
    ELSE
      LET xml_filename == Head(entries).filename
          xml_content == Head(entries).content
          invoice_data == parse_invoice_xml(fromstring(xml_content))
      IN  IF is_xml_processed(led, xml_content)
          THEN process_xmls_abort(Tail(entries),
                   [results EXCEPT !.skipped_xmls = @ + 1], led)
          ELSE IF invoice_data = None
          THEN [results EXCEPT !.failed_xmls = @ + 1]
          ELSE process_xmls_abort(Tail(entries),
                   [results EXCEPT
                      !.invoices = Append(@,
                          [invoice_number |-> invoice_data.invoice_number,
                           items |-> invoice_data.items,
                           xml_filename |-> xml_filename,
                           xml_content |-> xml_content,
                           zip_filename |-> results.zip_filename]),
                      !.processed_xmls = @ + 1], led)

\* the loop of process_zip_file (somex_processor_service.py:770) over the
\* (filename, content) pairs still to handle
RECURSIVE process_xmls(_, _, _)
process_xmls(entries, results, led) ==
    IF entries = << >> THEN results
    ELSE
      LET xml_filename == Head(entries).filename
          xml_content == Head(entries).content
          invoice_data == parse_invoice_xml(fromstring(xml_content))
          next ==
            IF is_xml_processed(led, xml_content)
            THEN [results EXCEPT !.skipped_xmls = @ + 1]
            ELSE IF invoice_data = None
            THEN [results EXCEPT !.failed_xmls = @ + 1]
            ELSE [results EXCEPT
                    !.invoices = Append(@,
                        [invoice_number |-> invoice_data.invoice_number,
                         items |-> invoice_data.items,
                         xml_filename |-> xml_filename,
                         xml_content |-> xml_content,
                         zip_filename |-> results.zip_filename]),
                    !.processed_xmls = @ + 1]
      IN  process_xmls(Tail(entries), next, led)

\* total_xmls counts only the documents that were not skipped
process_zip_file_total_new(entries, zip_filename, led) ==
    LET results == process_xmls(entries, EmptyResults(zip_filename, Len(entries)), led)
    IN  [results EXCEPT !.total_xmls = results.processed_xmls + results.failed_xmls]

\* somex_processor_service.py:738  process_zip_file, once the ZIP is open
process_zip_file(entries, zip_filename, led) ==
    process_xmls(entries, EmptyResults(zip_filename, Len(entries)), led)

\* the rows create_consolidated_excel (somex_processor_service.py:899)
\* writes: one per item of each invoice, none for an invoice without items
RECURSIVE excel_rows(_)
excel_rows(invoices) ==
    IF invoices = << >> THEN << >>
    ELSE LET inv == Head(invoices)
         IN  [i \in 1..Len(inv.items) |->
                 [invoice_number |-> inv.invoice_number,
                  product_name |-> inv.items[i].product_name,
                  product_code |-> inv.items[i].product_code,
                  quantity |-> inv.items[i].quantity_adjusted,
                  unit_price |-> inv.items[i].unit_price,
                  quantity_original |-> inv.items[i].quantity_original]]
             \o excel_rows(Tail(invoices))

(***************************************************************************)
(* The archives the server can hold: every sequence of documents up to a   *)
(* length.  Entry i of an archive is named i.                              *)
(***************************************************************************)
Archives(n) ==
    UNION {[1..k -> XmlDocs] : k \in 0..n}

XmlFiles(archive) ==
    [i \in 1..Len(archive) |-> [filename |-> i, content |-> archive[i]]]

(***************************************************************************)
(* ProcessingWorker.run (somex_tab.py:44), one action per step.            *)
(***************************************************************************)
\* the close() call is left out of the finally clause
finally_close_never(client) == client

\* somex_tab.py:235-237: finally: if self.sftp_client: self.sftp_client.close()
finally_close(client) ==
    IF client = "none" THEN "none" ELSE "closed"

ZeroTotals(n) ==
    [total_zips |-> n, processed_zips |-> 0, total_xmls |-> 0,
     processed_xmls |-> 0, skipped_xmls |-> 0, failed_xmls |-> 0,
     excel_file |-> 0]

NoResults == EmptyResults(0, 0)

Idle(w) == pc[w] \in {"idle", "complete", "error", "abandoned"}

\* somex_tab.py:749-767 and 46-96: the click disables the button and starts
\* a new worker, which connects, lists the ZIP files and sets up the totals
Connect(w) ==
    /\ w \in workers
    /\ Idle(w)
    /\ process_btn[w]
    /\ runs < MaxRuns
    /\ process_btn' = [process_btn EXCEPT ![w] = FALSE]
    /\ handled' = [handled EXCEPT ![w] = 0]
    /\ runs' = runs + 1
    /\ zip_idx' = [zip_idx EXCEPT ![w] = 1]
    /\ xml_files' = [xml_files EXCEPT ![w] = << >>]
    /\ zip_results' = [zip_results EXCEPT ![w] = NoResults]
    /\ all_invoices' = [all_invoices EXCEPT ![w] = << >>]
    /\ excel_path' = [excel_path EXCEPT ![w] = 0]
    /\ mark_idx' = [mark_idx EXCEPT ![w] = 1]
    /\ \/ \* connect() fails (return at 59), or list_files raises (caught at
          \* 231): error_occurred, then the finally clause
          /\ \E client \in {"created", "connected"} :
                sftp_client' = [sftp_client EXCEPT ![w] = finally_close(client)]
          /\ pc' = [pc EXCEPT ![w] = "error"]
          /\ signals' = [signals EXCEPT ![w] = <<"error_occurred">>]
          /\ zip_files' = [zip_files EXCEPT ![w] = 0]
          /\ total_results' = [total_results EXCEPT ![w] = ZeroTotals(0)]
       \/ \* no ZIP file in the directory (return at 84)
          /\ sftp_client' = [sftp_client EXCEPT ![w] = finally_close("connected")]
          /\ pc' = [pc EXCEPT ![w] = "complete"]
          /\ signals' = [signals EXCEPT ![w] = <<"processing_complete">>]
          /\ zip_files' = [zip_files EXCEPT ![w] = 0]
          /\ total_results' = [total_results EXCEPT ![w] = ZeroTotals(0)]
       \/ \E n \in 1..MaxZips :
          /\ sftp_client' = [sftp_client EXCEPT ![w] = "connected"]
          /\ pc' = [pc EXCEPT ![w] = "zips"]
          /\ signals' = [signals EXCEPT ![w] = << >>]
          /\ zip_files' = [zip_files EXCEPT ![w] = n]
          /\ total_results' = [total_results EXCEPT ![w] = ZeroTotals(n)]
    /\ UNCHANGED <<ledger, clock, excel_files, served, workers>>
    /\ UNCHANGED <<pvars, mvars, uvars, ovars>>

\* where the loop over the ZIP files goes after ZIP number zip_idx[w]
AfterZip(w) == IF zip_idx[w] >= zip_files[w] THEN "excel" ELSE "zips"

\* somex_tab.py:101-156: one iteration of the loop over the ZIP files
ProcessZip(w) ==
    /\ w \in workers
    /\ pc[w] = "zips"
    /\ zip_idx' = [zip_idx EXCEPT ![w] = @ + 1]
    /\ pc' = [pc EXCEPT ![w] = AfterZip(w)]
    /\ \/ \* the download fails (continue), or the ZIP cannot be opened
          \* (process_zip_file raises, caught at line 152)
          /\ UNCHANGED <<xml_files, zip_results, total_results, all_invoices, served>>
       \/ \E archive \in Archives(MaxServed - served) :
            LET results == process_zip_file(XmlFiles(archive), zip_idx[w], ledger)
            IN  /\ served' = served + Len(archive)
                /\ xml_files' = [xml_files EXCEPT ![w] = XmlFiles(archive)]
                /\ zip_results' = [zip_results EXCEPT ![w] = results]
                /\ total_results' = [total_results EXCEPT ![w] =
                       [@ EXCEPT !.processed_zips = @ + 1,
                                 !.total_xmls = @ + results.total_xmls,
                                 !.processed_xmls = @ + results.processed_xmls,
                                 !.skipped_xmls = @ + results.skipped_xmls,
                                 !.failed_xmls = @ + results.failed_xmls]]
                /\ all_invoices' = [all_invoices EXCEPT ![w] = @ \o results.invoices]
    /\ UNCHANGED <<ledger, clock, excel_files, runs, workers, zip_files,
                   excel_path, mark_idx, signals, bvars>>
    /\ UNCHANGED <<pvars, mvars, uvars, ovars>>

\* the marking loop is entered although no Excel file was saved
GenerateExcel_MarkAnyway(w) ==
    /\ w \in workers
    /\ pc[w] = "excel"
    /\ \/ /\ all_invoices[w] = << >>
          /\ pc' = [pc EXCEPT ![w] = "complete"]
          /\ signals' = [signals EXCEPT ![w] = Append(@, "processing_complete")]
          /\ sftp_client' = [sftp_client EXCEPT ![w] = finally_close(@)]
          /\ UNCHANGED <<excel_files, excel_path, total_results>>
       \/ /\ all_invoices[w] # << >>
          /\ excel_files' = Append(excel_files, excel_rows(all_invoices[w]))
          /\ excel_path' = [excel_path EXCEPT ![w] = Len(excel_files) + 1]
          /\ total_results' = [total_results EXCEPT ![w] =
                 [@ EXCEPT !.excel_file = Len(excel_files) + 1]]
          /\ pc' = [pc EXCEPT ![w] = "mark"]
          /\ UNCHANGED <<signals, sftp_client>>
       \/ /\ all_invoices[w] # << >>
          /\ excel_path' = [excel_path EXCEPT ![w] = Len(excel_files) + 1]
          /\ pc' = [pc EXCEPT ![w] = "mark"]
          /\ UNCHANGED <<excel_files, total_results, signals, sftp_client>>
    /\ UNCHANGED <<ledger, clock, served, runs, workers, zip_files, zip_idx,
                   xml_files, zip_results, all_invoices, mark_idx,
                   process_btn, handled>>
    /\ UNCHANGED <<pvars, mvars, uvars, ovars>>

\* somex_tab.py:167-176 and 223-229: the consolidated Excel
GenerateExcel(w) ==
    /\ w \in workers
    /\ pc[w] = "excel"
    /\ \/ \* nothing to write: processing_complete at once
          /\ all_invoices[w] = << >>
          /\ pc' = [pc EXCEPT ![w] = "complete"]
          /\ signals' = [signals EXCEPT ![w] = Append(@, "processing_complete")]
          /\ sftp_client' = [sftp_client EXCEPT ![w] = finally_close(@)]
          /\ UNCHANGED <<excel_files, excel_path, total_results>>
       \/ \* create_consolidated_excel returns the path of the saved file
          /\ all_invoices[w] # << >>
          /\ excel_files' = Append(excel_files, excel_rows(all_invoices[w]))
          /\ excel_path' = [excel_path EXCEPT ![w] = Len(excel_files) + 1]
          /\ total_results' = [total_results EXCEPT ![w] =
                 [@ EXCEPT !.excel_file = Len(excel_files) + 1]]
          /\ pc' = [pc EXCEPT ![w] = "mark"]
          /\ UNCHANGED <<signals, sftp_client>>
       \/ \* create_consolidated_excel raises (wb.save fails): caught at 223
          /\ all_invoices[w] # << >>
          /\ pc' = [pc EXCEPT ![w] = "complete"]
          /\ signals' = [signals EXCEPT ![w] = Append(@, "processing_complete")]
          /\ sftp_client' = [sftp_client EXCEPT ![w] = finally_close(@)]
          /\ UNCHANGED <<excel_files, excel_path, total_results>>
    /\ UNCHANGED <<ledger, clock, served, runs, workers, zip_files, zip_idx,
                   xml_files, zip_results, all_invoices, mark_idx,
                   process_btn, handled>>
    /\ UNCHANGED <<pvars, mvars, uvars, ovars>>

\* somex_tab.py:179-186: one iteration of the marking loop
MarkProcessed(w) ==
    /\ w \in workers
    /\ pc[w] = "mark"
    /\ LET invoice_data == all_invoices[w][mark_idx[w]]
       IN  ledger' = mark_xml_processed(ledger, clock,
                         invoice_data.xml_content, invoice_data.xml_filename,
                         invoice_data.zip_filename, invoice_data.invoice_number,
                         excel_path[w])
    /\ clock' = clock + 1
    /\ mark_idx' = [mark_idx EXCEPT ![w] = @ + 1]
    /\ pc' = [pc EXCEPT ![w] =
                 IF mark_idx[w] >= Len(all_invoices[w]) THEN "upload" ELSE "mark"]
    /\ UNCHANGED <<excel_files, served, runs, workers, zip_files, zip_idx,
                   xml_files, zip_results, total_results, all_invoices,
                   excel_path, signals, bvars>>
    /\ UNCHANGED <<pvars, mvars, uvars, ovars>>

\* somex_tab.py:192-237: the upload succeeds, fails or raises; each way the
\* run ends with processing_complete and the finally clause
UploadExcel(w) ==
    /\ w \in workers
    /\ pc[w] = "upload"
    /\ pc' = [pc EXCEPT ![w] = "complete"]
    /\ signals' = [signals EXCEPT ![w] = Append(@, "processing_complete")]
    /\ sftp_client' = [sftp_client EXCEPT ![w] = finally_close(@)]
    /\ UNCHANGED <<ledger, clock, excel_files, served, runs, workers, zip_files,
                   zip_idx, xml_files, zip_results, total_results, all_invoices,
                   excel_path, mark_idx, process_btn, handled>>
    /\ UNCHANGED <<pvars, mvars, uvars, ovars>>

\* the batch is abandoned mid-flight: the thread ends where it stands and
\* what it held in memory is gone; the database and the files stay.  The
\* application that is started next builds a new tab (somex_tab.py:495, the
\* button enabled) and no worker yet.
Abandon(w) ==
    /\ w \in workers
    /\ ~Idle(w)
    /\ sftp_client' = [sftp_client EXCEPT ![w] = "none"]
    /\ process_btn' = [process_btn EXCEPT ![w] = TRUE]
    /\ handled' = [handled EXCEPT ![w] = 0]
    /\ pc' = [pc EXCEPT ![w] = "abandoned"]
    /\ zip_files' = [zip_files EXCEPT ![w] = 0]
    /\ zip_idx' = [zip_idx EXCEPT ![w] = 1]
    /\ xml_files' = [xml_files EXCEPT ![w] = << >>]
    /\ zip_results' = [zip_results EXCEPT ![w] = NoResults]
    /\ total_results' = [total_results EXCEPT ![w] = ZeroTotals(0)]
    /\ all_invoices' = [all_invoices EXCEPT ![w] = << >>]
    /\ excel_path' = [excel_path EXCEPT ![w] = 0]
    /\ mark_idx' = [mark_idx EXCEPT ![w] = 1]
    /\ UNCHANGED <<ledger, clock, excel_files, served, runs, workers, signals>>
    /\ UNCHANGED <<pvars, mvars, uvars, ovars>>

\* the slot of the tab that the next signal of the run is queued for
SlotFrame(w) ==
    /\ w \in workers
    /\ handled[w] < Len(signals[w])
    /\ handled' = [handled EXCEPT ![w] = @ + 1]
    /\ process_btn' = [process_btn EXCEPT ![w] = TRUE]
    /\ UNCHANGED <<ledger, clock, excel_files, served, runs, workers, pc,
                   zip_files, zip_idx, xml_files, zip_results, total_results,
                   all_invoices, excel_path, mark_idx, signals, sftp_client>>
    /\ UNCHANGED <<pvars, mvars, uvars, ovars>>

\* somex_tab.py:776  _on_processing_complete
OnProcessingComplete(w) ==
    /\ SlotFrame(w)
    /\ signals[w][handled[w] + 1] = "processing_complete"

\* somex_tab.py:821  _on_processing_error
OnProcessingError(w) ==
    /\ SlotFrame(w)
    /\ signals[w][handled[w] + 1] = "error_occurred"

(***************************************************************************)
(* Somex PDF parser (somex_pdf_parser.py).  A PDF is a record: whether     *)
(* pdfplumber opens it, its number of pages, what each of the three        *)
(* invoice-number patterns captures in the page text (NoMatch if it does   *)
(* not match), and the rows of the products table of the first page.       *)
(***************************************************************************)
\* somex_pdf_parser.py:90  _extract_invoice_number: the first pattern that
\* matches wins; the captured group [A-Z0-9\-]+ is never empty
extract_invoice_number(text) ==
    IF text.facturaNo # NoMatch THEN Strip(text.facturaNo)
    ELSE IF text.noFactura # NoMatch THEN Strip(text.noFactura)
    ELSE IF text.nFactura # NoMatch THEN Strip(text.nFactura)
    ELSE ""

(***************************************************************************)
(* Texts of table cells are sequences of characters.                       *)
(***************************************************************************)
Digits == {"0", "1", "2", "3", "4", "5", "6", "7", "8", "9"}

DigitValue(c) ==
    CASE c = "0" -> 0 [] c = "1" -> 1 [] c = "2" -> 2 [] c = "3" -> 3
      [] c = "4" -> 4 [] c = "5" -> 5 [] c = "6" -> 6 [] c = "7" -> 7
      [] c = "8" -> 8 [] c = "9" -> 9

\* the integer a sequence of digits stands for
RECURSIVE DigitsValue(_)
DigitsValue(s) ==
    IF s = << >> THEN 0
    ELSE 10 * DigitsValue(SubSeq(s, 1, Len(s) - 1)) + DigitValue(s[Len(s)])

RECURSIVE Pow10(_)
Pow10(n) == IF n = 0 THEN 1 ELSE 10 * Pow10(n - 1)

\* str.replace(c, '')
Remove(s, c) == SelectSeq(s, LAMBDA x : x # c)

\* str.replace(a, b) for characters
Replace(s, a, b) == [i \in 1..Len(s) |-> IF s[i] = a THEN b ELSE s[i]]

\* str.count(c)
Count(s, c) == Len(SelectSeq(s, LAMBDA x : x = c))

\* str.rfind(c), positions counted from 1, 0 when c does not occur
rfind(s, c) ==
    IF \E i \in 1..Len(s) : s[i] = c
    THEN CHOOSE i \in 1..Len(s) : s[i] = c /\ \A j \in (i + 1)..Len(s) : s[j] # c
    ELSE 0

\* len(s.split(c)[1]) for a text with c in it: the characters between the
\* first c and the next one, or the end
LenSecondPart(s, c) ==
    LET first == CHOOSE i \in 1..Len(s) : s[i] = c /\ \A j \in 1..(i - 1) : s[j] # c
        rest == SubSeq(s, first + 1, Len(s))
    IN  IF \E i \in 1..Len(rest) : rest[i] = c
        THEN (CHOOSE i \in 1..Len(rest) : rest[i] = c /\ \A j \in 1..(i - 1) : rest[j] # c) - 1
        ELSE Len(rest)

\* decimal.Decimal(text) for a text of digits with at most one point; any
\* other text of the model raises InvalidOperation
decimal_of(text) ==
    IF /\ \A i \in 1..Len(text) : text[i] \in Digits \cup {"."}
       /\ Count(text, ".") <= 1
       /\ \E i \in 1..Len(text) : text[i] \in Digits
    THEN [num |-> DigitsValue(Remove(text, ".")),
          den |-> IF Count(text, ".") = 1
                  THEN Pow10(Len(text) - rfind(text, "."))
                  ELSE 1]
    ELSE Raised

\* the comma is always the decimal separator and the dot the thousands
\* separator
parse_colombian_number_comma_decimal(value_str) ==
    LET cleaned == Remove(Remove(value_str, "$"), " ")
        number == decimal_of(Replace(Remove(cleaned, "."), ",", "."))
    IN  IF cleaned = << >> \/ number = Raised THEN DecimalZero ELSE number

\* somex_pdf_parser.py:302  _parse_colombian_number
parse_colombian_number(value_str) ==
    IF value_str = << >> THEN DecimalZero
    ELSE
      LET cleaned == Remove(Remove(value_str, "$"), " ")
          dot_count == Count(cleaned, ".")
          comma_count == Count(cleaned, ",")
          last_dot == rfind(cleaned, ".")
          last_comma == rfind(cleaned, ",")
          text ==
            IF comma_count = 0 /\ dot_count = 0 THEN cleaned
            ELSE IF comma_count > 0 /\ dot_count = 0
            THEN IF comma_count = 1 /\ LenSecondPart(cleaned, ",") <= 2
                 THEN Replace(cleaned, ",", ".")
                 ELSE Remove(cleaned, ",")
            ELSE IF dot_count > 0 /\ comma_count = 0
            THEN IF dot_count = 1 /\ LenSecondPart(cleaned, ".") <= 2
                 THEN cleaned
                 ELSE Remove(cleaned, ".")
            ELSE IF last_comma > last_dot
            THEN Replace(Remove(cleaned, "."), ",", ".")
            ELSE Remove(cleaned, ",")
          number == decimal_of(text)
      IN  IF cleaned = << >> THEN DecimalZero
          ELSE IF number = Raised THEN DecimalZero
          ELSE number

\* the quotient a / b of two Decimals
DecimalQuot(a, b) == [num |-> a.num * b.den, den |-> a.den * b.num]

\* somex_pdf_parser.py:426-482: the data rows of the products table
RECURSIVE product_rows(_)
product_rows(rows) ==
    IF rows = << >> THEN << >>
    ELSE
      LET row == Head(rows)
          quantity_original == parse_colombian_number(row.bultos)
          quantity_adjusted == parse_colombian_number(row.kilos)
          line_total == parse_colombian_number(row.total)
          item == [product_code |-> row.referencia,
                   product_name |-> row.descripcion,
                   quantity_original |-> quantity_original,
                   quantity_adjusted |-> quantity_adjusted,
                   unit_of_measure |-> "KG",
                   unit_price |-> IF quantity_adjusted.num > 0
                                  THEN DecimalQuot(line_total, quantity_adjusted)
                                  ELSE DecimalZero,
                   quantity |-> quantity_adjusted,
                   taxable_amount |-> line_total]
      IN  IF row.referencia = ""
          THEN product_rows(Tail(rows))
          ELSE <<item>> \o product_rows(Tail(rows))

\* somex_pdf_parser.py:374  _extract_product_table
extract_product_table(page) ==
    IF ~page.hasTable THEN << >> ELSE product_rows(page.rows)

\* somex_pdf_parser.py:22  parse_invoice_pdf
parse_invoice_pdf(pdf) ==
    IF ~pdf.opens THEN None
    ELSE IF pdf.pages = 0 THEN None
    ELSE [invoice_number |-> extract_invoice_number(pdf),
          seller_nit |-> "800221724",
          seller_name |-> "PRODUCTORA DE INSUMOS AGROPECUARIOS SOMEX S.A.S",
          items |-> extract_product_table(pdf)]

(***************************************************************************)
(* Inputs of the parsers.                                                  *)
(***************************************************************************)
\* invoice lines of one document
MaxLines == 2

LineInputs ==
    {Line("SAL SOMEX CEBA X 40 KILOS", q, t) :
        q \in {NoElem, "1", "-1", "abc"}, t \in {"100000", "abc"}}
    \cup {Line(n, "1", "100000") : n \in {"ARROZ X 1 UNIDAD", "MUESTRA X 0 KILOS"}}

LineSeqs(n) == UNION {[1..k -> LineInputs] : k \in 0..n}

HeaderTexts == {NoElem, " ", "F-100"}
FirstIdTexts == {NoElem, "", "SETT-1"}

InvoiceTrees(n) ==
    {InvoiceTree(o, f, l) : o \in HeaderTexts, f \in FirstIdTexts, l \in LineSeqs(n)}

Description(present, empty, starts, hasInvoice, tree) ==
    [present |-> present, empty |-> empty, cdata |-> FALSE, starts |-> starts,
     hasInvoice |-> hasInvoice, tree |-> tree]

\* a Description whose text still carries the literal markers <![CDATA[ and
\* ]]> around the invoice
MarkedDescription(tree) ==
    [present |-> TRUE, empty |-> FALSE, cdata |-> TRUE, starts |-> "<",
     hasInvoice |-> TRUE, tree |-> tree]

Descriptions ==
    {Description(FALSE, TRUE, "", FALSE, MalformedTree),
     Description(TRUE, TRUE, "", FALSE, MalformedTree),
     Description(TRUE, FALSE, "plain", TRUE, MalformedTree),
     Description(TRUE, FALSE, "<", FALSE, MalformedTree),
     Description(TRUE, FALSE, "<", TRUE, MalformedTree)}
    \cup {Description(TRUE, FALSE, st, TRUE, t) :
             st \in {"<?xml", "<"}, t \in InvoiceTrees(1)}
    \cup {MarkedDescription(t) : t \in InvoiceTrees(1)}

\* an AttachedDocument envelope: its own cbc:ID and its Description
AttachedTrees ==
    {[root |-> "AttachedDocument", orderRefId |-> NoElem, firstId |-> "ENV-1",
      lines |-> << >>, description |-> d] : d \in Descriptions}

XmlInputs == InvoiceTrees(MaxLines) \cup AttachedTrees \cup {MalformedTree}

RowInputs ==
    {[referencia |-> r, descripcion |-> "SAL", bultos |-> b, kilos |-> k,
      total |-> <<"1", "0", "0", ".", "0", "0", "0">>] :
        r \in {"", "REF1"}, b \in {<<"2">>, <<"a", "b", "c">>},
        k \in {<<"4", "0">>, <<"0">>}}

PdfInputs ==
    {[opens |-> o, pages |-> n, facturaNo |-> a, noFactura |-> b, nFactura |-> c,
      hasTable |-> h, rows |-> rows] :
        o \in BOOLEAN, n \in 0..1, a \in {NoMatch, "2B-286000"},
        b \in {NoMatch, "12345"}, c \in {NoMatch, "777"}, h \in BOOLEAN,
        rows \in UNION {[1..k -> RowInputs] : k \in 0..1}}

\* characters of a cell text
MaxChars == 5

NumberChars == {"0", "1", ".", ",", "$", " "}

\* the number formats the parser names
ExampleNumbers ==
    {<<"9", ".", "7", "7", "8", ".", "8", "7", "5">>,
     <<"9", ",", "7", "7", "8", ",", "8", "7", "5">>,
     <<"9", ".", "7", "7", "8", ",", "8", "7">>,
     <<"9", ",", "7", "7", "8", ".", "8", "7">>,
     <<"$", " ", "1", ".", "2", "3", "4", ",", "5", "0">>}

NumberInputs ==
    UNION {[1..k -> NumberChars] : k \in 0..MaxChars} \cup ExampleNumbers

ParserInputs ==
    {[kind |-> "xml", doc |-> [bytes |-> <<1, 1>>, xml |-> t]] : t \in XmlInputs}
    \cup {[kind |-> "pdf", doc |-> f] : f \in PdfInputs}
    \cup {[kind |-> "number", doc |-> [text |-> t]] : t \in NumberInputs}

Pending == [pending |-> TRUE]
NoInput == [kind |-> "none"]

\* parse_invoice_xml on the document, and process_zip_file on a ZIP that
\* holds just this document, the ledger empty
ParseXml ==
    /\ p_input.kind = "xml"
    /\ p_parsed = Pending
    /\ p_parsed' = parse_invoice_xml(fromstring(p_input.doc))
    /\ p_results' = process_zip_file(XmlFiles(<<p_input.doc>>), 1, {})
    /\ UNCHANGED <<p_input, p_number, svars, mvars, uvars, ovars>>

\* parse_invoice_pdf on the document
ParsePdf ==
    /\ p_input.kind = "pdf"
    /\ p_parsed = Pending
    /\ p_parsed' = parse_invoice_pdf(p_input.doc)
    /\ UNCHANGED <<p_input, p_results, p_number, svars, mvars, uvars, ovars>>

\* _parse_colombian_number on the text of a cell
ParseNumber ==
    /\ p_input.kind = "number"
    /\ p_number = Pending
    /\ p_number' = parse_colombian_number(p_input.doc.text)
    /\ UNCHANGED <<p_input, p_parsed, p_results, svars, mvars, uvars, ovars>>

(***************************************************************************)
(* Standard UBL parser (ubl_xml_parser.py), its inventory, and the mail    *)
(* pipeline (process_invoices_use_case.py).                                *)
(***************************************************************************)
(***************************************************************************)
(* PulgarinInventoryService (pulgarin_inventory_service.py).  A data row   *)
(* of the Excel file is the texts of its four cells, "" for an empty cell. *)
(***************************************************************************)
EmptyInventory == [k \in {} |-> None]

\* pulgarin_inventory_service.py:85-90: the weight of a row
parse_peso(peso_str) ==
    IF peso_str # "" /\ IsDecimal(peso_str)
    THEN [none |-> FALSE, value |-> DecimalTable[peso_str]]
    ELSE None

\* pulgarin_inventory_service.py:72-106: the loop over the data rows; a row
\* without description is skipped, a later row replaces an earlier one of
\* the same normalized description
RECURSIVE import_rows(_, _)
import_rows(rows, inv) ==
    IF rows = << >> THEN inv
    ELSE
      LET row == Head(rows)
          descripcion == Strip(row.descripcion)
          item == [codigo |-> Strip(row.codigo),
                   descripcion |-> descripcion,
                   peso |-> parse_peso(Strip(row.peso)),
                   unidad_medida |-> Strip(row.um),
                   descripcion_normalizada |-> Lower(Strip(descripcion))]
      IN  IF descripcion = ""
          THEN import_rows(Tail(rows), inv)
          ELSE import_rows(Tail(rows),
                   [k \in DOMAIN inv \cup {item.descripcion_normalizada} |->
                       IF k = item.descripcion_normalizada THEN item ELSE inv[k]])

\* the rows are added to the entries of the previous import
import_from_excel_merge(inv, rows) == import_rows(rows, inv)

\* pulgarin_inventory_service.py:28  import_from_excel, once the workbook is
\* open: the index is cleared, then filled from the rows
import_from_excel(inv, rows) == import_rows(rows, EmptyInventory)

\* pulgarin_inventory_service.py:117  find_by_description
find_by_description(product_name) ==
    LET normalized_name == Lower(Strip(product_name))
    IN  IF normalized_name \in DOMAIN inventory
        THEN inventory[normalized_name] ELSE None

\* pulgarin_inventory_service.py:132  get_weight
get_weight(product_name) ==
    LET item == find_by_description(product_name)
    IN  IF item # None THEN item.peso ELSE None

\* pulgarin_inventory_service.py:145  get_unit_of_measure ("" for None)
get_unit_of_measure(product_name) ==
    LET item == find_by_description(product_name)
    IN  IF item # None THEN item.unidad_medida ELSE ""

(***************************************************************************)
(* UBLXMLParser.                                                           *)
(***************************************************************************)
\* ubl_xml_parser.py:37  UNIT_CODE_MAP.get(unit_code, unit_code)
unit_code_map(unit_code) ==
    CASE unit_code \in {"94", "KGM"} -> "KG"
      [] unit_code = "GRM" -> "GR"
      [] unit_code = "LTR" -> "LT"
      [] unit_code = "MTR" -> "MT"
      [] unit_code \in {"H87", "EA", "NIU", "C62"} -> "UN"
      [] OTHER -> unit_code

\* a line of a Standard-UBL invoice: the texts of the elements the XPaths
\* address, and its ItemProperty elements in document order
UblLineW(description, quantity, unitCode, weight, netWeight, properties) ==
    [description |-> description, name |-> NoElem, sellersId |-> "P-1",
     quantity |-> quantity, unitCode |-> unitCode, price |-> "100000",
     percent |-> NoElem, subPercent |-> NoElem, weight |-> weight,
     netWeight |-> netWeight, properties |-> properties]

UblLine(quantity, price) ==
    [description |-> "PRODUCTO", name |-> NoElem, sellersId |-> "P-1",
     quantity |-> quantity, unitCode |-> "KGM", price |-> price,
     percent |-> NoElem, subPercent |-> NoElem, weight |-> NoElem,
     netWeight |-> NoElem, properties |-> << >>]

\* ubl_xml_parser.py:214-221: the Value of the first ItemProperty whose Name
\* holds "peso" or "weight" and whose Value is not empty
RECURSIVE property_weight(_)
property_weight(properties) ==
    IF properties = << >> THEN ""
    ELSE LET prop == Head(properties)
             name == get_text(prop.name)
             value == get_text(prop.value)
         IN  IF name # "" /\ Lower(name) \in {"peso", "weight"} /\ value # ""
             THEN value
             ELSE property_weight(Tail(properties))

\* ubl_xml_parser.py:205-226: the weight the XML carries
xml_weight(line) ==
    LET w1 == get_text(line.weight)
        w2 == IF w1 = "" THEN get_text(line.netWeight) ELSE w1
        weight_str == IF w2 = "" THEN property_weight(line.properties) ELSE w2
    IN  IF weight_str # "" /\ IsDecimal(weight_str)
        THEN [none |-> FALSE, value |-> DecimalTable[weight_str]]
        ELSE None

\* ubl_xml_parser.py:170-203: the unit of the line, overridden by the unit
\* of the inventory entry when the inventory gave a weight
ubl_unit_of_measure(product_name, unit_code, weight) ==
    IF /\ product_name # ""
       /\ weight # None
       /\ weight.value # 0
       /\ get_unit_of_measure(product_name) # ""
    THEN get_unit_of_measure(product_name)
    ELSE unit_code_map(unit_code)

\* ubl_xml_parser.py:158  _parse_line_item: a text that is not a number
\* makes Decimal raise, and the method raises RuntimeError
ubl_parse_line_item(line) ==
    LET d == get_text(line.description)
        product_name == IF d = "" THEN get_text(line.name) ELSE d
        quantity_str == get_text(line.quantity)
        price_str == get_text(line.price)
        p == get_text(line.percent)
        tax_percent_str == IF p = "" THEN get_text(line.subPercent) ELSE p
        inventory_weight == IF product_name # "" THEN get_weight(product_name) ELSE None
        weight == IF inventory_weight = None THEN xml_weight(line) ELSE inventory_weight
    IN  IF \/ (quantity_str # "" /\ ~IsDecimal(quantity_str))
           \/ (price_str # "" /\ ~IsDecimal(price_str))
           \/ (tax_percent_str # "" /\ ~IsDecimal(tax_percent_str))
        THEN Raised
        ELSE [product_name |-> product_name,
              product_code |-> get_text(line.sellersId),
              subyacente_code |-> "SPN-1",
              quantity |-> IF quantity_str # "" THEN DecimalTable[quantity_str] ELSE 0,
              unit_of_measure |->
                  ubl_unit_of_measure(product_name, line.unitCode, inventory_weight),
              unit_price |-> IF price_str # "" THEN DecimalTable[price_str] ELSE 0,
              tax_percentage |->
                  IF tax_percent_str # "" THEN DecimalTable[tax_percent_str] ELSE 0,
              weight |-> weight]

\* a cac:Party element: the texts of the elements the XPaths of the parser
\* address below it.  firstId is the first cbc:ID below the party in document
\* order (PartyIdentification/ID, an Address/ID or a TaxScheme/ID).
Party(firstId, companyId, partyName, registrationName) ==
    [present |-> TRUE, firstId |-> firstId, companyId |-> companyId,
     partyName |-> partyName, registrationName |-> registrationName]

\* tree.find('.//cac:Accounting...Party/cac:Party') returns None
NoParty == [present |-> FALSE]

\* ubl_xml_parser.py:99-105: seller_nit and seller_name
seller_information(seller_party) ==
    IF ~seller_party.present THEN [nit |-> "", name |-> ""]
    ELSE LET seller_name == get_text(seller_party.partyName)
         IN  [nit |-> get_text(seller_party.companyId),
              name |-> IF seller_name = ""
                       THEN get_text(seller_party.registrationName)
                       ELSE seller_name]

\* ubl_xml_parser.py:107-126: buyer_nit and buyer_name
buyer_information(buyer_party) ==
    IF ~buyer_party.present THEN [nit |-> "", name |-> ""]
    ELSE LET buyer_nit == get_text(buyer_party.firstId)
             buyer_name == get_text(buyer_party.registrationName)
         IN  [nit |-> IF buyer_nit = ""
                      THEN get_text(buyer_party.companyId)
                      ELSE buyer_nit,
              name |-> IF buyer_name = ""
                       THEN get_text(buyer_party.partyName)
                       ELSE buyer_name]

\* ubl_xml_parser.py:49  parse_invoice: an Invoice, or Raised for the
\* RuntimeError of line 156.  An AttachedDocument whose Description has a
\* text is replaced by the tree of that text, literal CDATA markers removed;
\* any other AttachedDocument is read as it stands.
parse_invoice(xml) ==
    IF xml.root = "malformed" THEN Raised
    ELSE
      LET unwrap == /\ xml.root = "AttachedDocument"
                    /\ xml.description.present
                    /\ ~xml.description.empty
          tree == IF unwrap THEN xml.description.tree ELSE xml
      IN  IF tree.root = "malformed" THEN Raised
          ELSE IF \E i \in 1..Len(tree.lines) : ubl_parse_line_item(tree.lines[i]) = Raised
          THEN Raised
          ELSE [invoice_number |-> get_text(tree.firstId),
                seller_nit |-> seller_information(tree.seller).nit,
                seller_name |-> seller_information(tree.seller).name,
                buyer_nit |-> buyer_information(tree.buyer).nit,
                buyer_name |-> buyer_information(tree.buyer).name,
                items |-> [i \in 1..Len(tree.lines) |-> ubl_parse_line_item(tree.lines[i])]]

\* an Invoice tree: the cbc:ID of a ext:UBLExtension, if there is one, comes
\* before the cbc:ID of the invoice in document order
UblTreeExt(extensionId, topId, lines) ==
    [root |-> "Invoice", orderRefId |-> NoElem,
     firstId |-> IF extensionId # NoElem THEN extensionId ELSE topId,
     topId |-> topId, lines |-> lines,
     seller |-> Party(NoElem, "900", "ACME", NoElem),
     buyer |-> Party(NoElem, "800", "PULGARIN", NoElem)]

\* an Invoice tree with the given AccountingSupplierParty and
\* AccountingCustomerParty
UblTreeParties(topId, lines, seller, buyer) ==
    [root |-> "Invoice", orderRefId |-> NoElem, firstId |-> topId,
     topId |-> topId, lines |-> lines, seller |-> seller, buyer |-> buyer]

UblTree(firstId, lines) == UblTreeExt(NoElem, firstId, lines)

Ubl1 == [bytes |-> <<1>>, xml |-> UblTree("FE-1", <<UblLine("2", "100000")>>)]
Ubl2 == [bytes |-> <<0>>, xml |-> UblTree("FE-2", << >>)]
UblM == [bytes |-> <<0, 1>>, xml |-> MalformedTree]

UblDocs == {Ubl1, Ubl2, UblM}

\* XML entries of one ZIP attachment
MaxZipXmls == 2
\* emails search_emails returns
MaxEmails == 2
\* calls of execute in one behaviour
MaxMailRuns == 2

\* the attachments of an email: a ZIP that cannot be opened, or a ZIP with
\* its XML entries in namelist() order; "other" is a file that is no ZIP
MailZips ==
    {[kind |-> "zip", opens |-> FALSE, xmls |-> << >>]}
    \cup {[kind |-> "zip", opens |-> TRUE, xmls |-> x] :
             x \in UNION {[1..k -> UblDocs] : k \in 0..MaxZipXmls}}

AttachmentLists ==
    {<< >>, <<[kind |-> "other", opens |-> FALSE, xmls |-> << >>]>>}
    \cup {<<z>> : z \in MailZips}

\* process_invoices_use_case.py:104  _process_zip_attachment
process_zip_attachment(zip) ==
    IF ~zip.opens THEN None
    ELSE IF zip.xmls = << >> THEN None
    ELSE LET invoice == parse_invoice(fromstring(zip.xmls[1]))
         IN  IF invoice = Raised THEN None ELSE invoice

\* process_invoices_use_case.py:73-78: the loop over the attachments
RECURSIVE attachment_invoices(_)
attachment_invoices(attachments) ==
    IF attachments = << >> THEN << >>
    ELSE LET a == Head(attachments)
             invoice == IF a.kind = "zip" THEN process_zip_attachment(a) ELSE None
         IN  IF invoice # None
             THEN <<invoice>> \o attachment_invoices(Tail(attachments))
             ELSE attachment_invoices(Tail(attachments))

\* a check that never finds the row
is_email_processed_never(rows, email_id) == FALSE

\* sqlite_repository.py:75  is_email_processed
is_email_processed(rows, email_id) ==
    Cardinality({r \in rows : r.email_id = email_id}) > 0

\* sqlite_repository.py:90  mark_email_processed: INSERT OR IGNORE
mark_email_processed(rows, email_id, timestamp) ==
    IF \E r \in rows : r.email_id = email_id
    THEN rows
    ELSE rows \cup {[email_id |-> email_id, processed_at |-> timestamp]}

NewResult ==
    [emails_processed |-> 0, invoices_generated |-> 0, errors_count |-> 0,
     success |-> TRUE, output_file |-> 0]

add_error(result) ==
    [result EXCEPT !.errors_count = @ + 1, !.success = FALSE]

\* process_invoices_use_case.py:41-56: connect and search
MailConnect ==
    /\ m_pc \in {"idle", "returned"}
    /\ m_runs < MaxMailRuns
    /\ m_runs' = m_runs + 1
    /\ m_idx' = 1
    /\ m_invoices' = << >>
    /\ m_attachments' = << >>
    /\ m_handled' = << >>
    /\ \/ \* connect returns False, or raises: an error, and return
          /\ m_pc' = "returned"
          /\ m_result' = add_error(NewResult)
          /\ m_email_ids' = << >>
          /\ m_connected' = FALSE
       \/ \* connected, search_emails raises: the fatal handler of line 97
          /\ m_pc' = "returned"
          /\ m_result' = add_error(NewResult)
          /\ m_email_ids' = << >>
          /\ m_connected' = TRUE
       \/ \E n \in 0..MaxEmails :
          /\ m_pc' = IF n = 0 THEN "export" ELSE "emails"
          /\ m_result' = NewResult
          /\ m_email_ids' = [i \in 1..n |-> i]
          /\ m_connected' = TRUE
    /\ UNCHANGED <<m_processed, m_csv, m_failed, svars, pvars, uvars, ovars>>

MailAfterEmail == IF m_idx >= Len(m_email_ids) THEN "export" ELSE "emails"

\* what one iteration did with its email: "skipped" (no fetch), "fetch_raised",
\* "extract_raised" or "marked", and the invoices its attachments gave
Handled(email_id, how, invoices) ==
    [email_id |-> email_id, how |-> how, invoices |-> invoices]

\* process_invoices_use_case.py:58-86: one iteration of the loop over emails
MailProcessEmail ==
    /\ m_pc = "emails"
    /\ m_idx' = m_idx + 1
    /\ m_pc' = MailAfterEmail
    /\ LET email_id == m_email_ids[m_idx]
       IN  \/ \* already processed: skipped without being fetched
              /\ is_email_processed(m_processed, email_id)
              /\ m_handled' = Append(m_handled, Handled(email_id, "skipped", << >>))
              /\ UNCHANGED <<m_processed, m_attachments, m_invoices, m_result,
                             m_failed>>
           \/ \* fetch_email raises: an error, the email is not marked
              /\ ~is_email_processed(m_processed, email_id)
              /\ m_result' = add_error(m_result)
              /\ m_handled' = Append(m_handled, Handled(email_id, "fetch_raised", << >>))
              /\ m_failed' = m_failed \cup {email_id}
              /\ UNCHANGED <<m_processed, m_attachments, m_invoices>>
           \/ \* fetched; extract_attachments raises: an error, not marked
              /\ ~is_email_processed(m_processed, email_id)
              /\ m_result' = add_error([m_result EXCEPT !.emails_processed = @ + 1])
              /\ m_handled' = Append(m_handled, Handled(email_id, "extract_raised", << >>))
              /\ m_failed' = m_failed \cup {email_id}
              /\ UNCHANGED <<m_processed, m_attachments, m_invoices>>
           \/ \E attachments \in AttachmentLists :
              LET found == attachment_invoices(attachments)
              IN  /\ ~is_email_processed(m_processed, email_id)
                  /\ m_attachments' = attachments
                  /\ m_invoices' = m_invoices \o found
                  /\ m_result' = [m_result EXCEPT
                         !.emails_processed = @ + 1,
                         !.invoices_generated = @ + Len(found)]
                  /\ m_processed' = mark_email_processed(m_processed, email_id, m_runs)
                  /\ m_handled' = Append(m_handled, Handled(email_id, "marked", found))
                  /\ UNCHANGED m_failed
    /\ UNCHANGED <<m_runs, m_email_ids, m_connected, m_csv, svars, pvars, uvars, ovars>>

\* process_invoices_use_case.py:88-102: export, disconnect, return
MailExport ==
    /\ m_pc = "export"
    /\ m_pc' = "returned"
    /\ \/ \* nothing to export, or the export succeeds: disconnect
          /\ m_csv' = IF m_invoices # << >> THEN Append(m_csv, m_invoices) ELSE m_csv
          /\ m_result' = IF m_invoices # << >>
                         THEN [m_result EXCEPT !.output_file = Len(m_csv) + 1]
                         ELSE m_result
          /\ m_connected' = FALSE
       \/ \* export_invoices raises: the fatal handler, no disconnect
          /\ m_invoices # << >>
          /\ m_result' = add_error(m_result)
          /\ UNCHANGED <<m_csv, m_connected>>
    /\ UNCHANGED <<m_runs, m_email_ids, m_idx, m_processed, m_attachments,
                   m_invoices, m_handled, m_failed, svars, pvars, uvars, ovars>>

(***************************************************************************)
(* Inputs of the Standard UBL parser and of the inventory import.          *)
(***************************************************************************)
\* data rows of one inventory file
MaxRows == 2

InventoryRow(codigo, descripcion, peso, um) ==
    [codigo |-> codigo, descripcion |-> descripcion, peso |-> peso, um |-> um]

InventoryRows ==
    {InventoryRow("C1", " Producto ", "40", "BULTO"),
     InventoryRow("C2", "PRODUCTO", "", "BULTO"),
     InventoryRow("C3", "PRODUCTO", "0", "BULTO"),
     InventoryRow("C4", "Producto", "40", ""),
     InventoryRow("C5", "ARROZ", "abc", "LB"),
     InventoryRow("C6", " ", "40", "BULTO")}

ExcelFiles == UNION {[1..k -> InventoryRows] : k \in 0..MaxRows}

\* product names looked up in the inventory
ProductNames == {"PRODUCTO", " Producto ", "Producto", "ARROZ", "OTRO", ""}

\* the weight of a line in none of the three places, in cbc:Weight, in
\* cbc:NetWeight, or in an ItemProperty named "Peso"
UblWeights ==
    {[weight |-> NoElem, netWeight |-> NoElem, properties |-> << >>],
     [weight |-> "2", netWeight |-> NoElem, properties |-> << >>],
     [weight |-> NoElem, netWeight |-> "2", properties |-> << >>],
     [weight |-> NoElem, netWeight |-> NoElem,
      properties |-> <<[name |-> "Color", value |-> "40"],
                       [name |-> "Peso", value |-> "1"]>>]}

UblLineInputs ==
    {UblLineW(d, q, "KGM", w.weight, w.netWeight, w.properties) :
        d \in {"PRODUCTO", "OTRO"}, q \in {"2", "abc"}, w \in UblWeights}

UblLineSeqs ==
    {<< >>, <<UblLine("2", "100000"), UblLine("abc", "100000")>>}
    \cup {<<l>> : l \in UblLineInputs}

\* a party: absent, or each of its four elements absent or with a text
PartyInputs ==
    {NoParty}
    \cup {Party(f, c, n, r) :
             f \in {NoElem, "01"}, c \in {NoElem, "900"},
             n \in {NoElem, "ACME"}, r \in {NoElem, "ACME SAS"}}

UblTrees ==
    {UblTreeExt(NoElem, t, l) : t \in {NoElem, "FE-1"}, l \in UblLineSeqs}
    \cup {UblTreeExt(e, "FE-1", <<UblLine("2", "100000")>>) : e \in {"", "EXT-1"}}
    \cup {UblTreeParties("FE-1", << >>, p, p) : p \in PartyInputs}
    \cup {UblTreeParties("FE-1", << >>, NoParty, Party("01", "800", "PULGARIN", NoElem)),
          UblTreeParties("FE-1", << >>, Party("01", "900", NoElem, "ACME SAS"), NoParty)}

\* a well-formed document that is no invoice and has no cbc:ID
OtherTree ==
    [root |-> "Other", orderRefId |-> NoElem, firstId |-> NoElem,
     topId |-> NoElem, lines |-> << >>, seller |-> NoParty, buyer |-> NoParty]

\* the invoices an envelope carries
EmbeddedUblTrees ==
    {UblTreeExt(NoElem, "FE-1", l) :
        l \in {<< >>, <<UblLine("2", "100000")>>, <<UblLine("abc", "100000")>>}}

UblDescriptions ==
    {Description(FALSE, TRUE, "", FALSE, MalformedTree),
     Description(TRUE, TRUE, "", FALSE, MalformedTree),
     Description(TRUE, FALSE, "plain", TRUE, MalformedTree),
     Description(TRUE, FALSE, "<", FALSE, OtherTree),
     Description(TRUE, FALSE, "<", TRUE, MalformedTree)}
    \cup {Description(TRUE, FALSE, st, TRUE, t) :
             st \in {"<?xml", "<"}, t \in EmbeddedUblTrees}
    \cup {MarkedDescription(t) : t \in EmbeddedUblTrees}

\* an AttachedDocument envelope: its own cbc:ID and its Description
UblAttachedTrees ==
    {[root |-> "AttachedDocument", orderRefId |-> NoElem, firstId |-> "ENV-1",
      topId |-> "ENV-1", lines |-> << >>, seller |-> NoParty,
      buyer |-> NoParty, description |-> d] :
        d \in UblDescriptions}

UblInputs ==
    {[bytes |-> <<1, 1>>, xml |-> t] :
        t \in UblTrees \cup UblAttachedTrees \cup {MalformedTree}}

\* pulgarin_inventory_service.py:28  import_from_excel, called from
\* ClientTab._on_import_inventory; the catalog is loaded before the
\* documents of a run are parsed
ImportFromExcel ==
    /\ u_parsed = Pending
    /\ inv_previous' = DOMAIN inventory
    /\ \/ \* load_workbook raises: nothing was touched
          /\ inv_status' = "raised"
          /\ inv_rows' = << >>
          /\ UNCHANGED inventory
       \/ \* the rows are read to the end: the number of items is returned
          \E file \in ExcelFiles :
            /\ inventory' = import_from_excel(inventory, file)
            /\ inv_rows' = file
            /\ inv_status' = "completed"
       \/ \* iter_rows raises after k rows: the exception is raised again
          \E file \in ExcelFiles : \E k \in 0..(Len(file) - 1) :
            /\ inventory' = import_from_excel(inventory, SubSeq(file, 1, k))
            /\ inv_rows' = file
            /\ inv_status' = "raised"
    /\ UNCHANGED <<u_input, u_parsed, svars, pvars, mvars, ovars>>

\* UBLXMLParser.parse_invoice on a document, with the inventory as it is
ParseUbl ==
    /\ u_parsed = Pending
    /\ \E doc \in UblInputs :
        /\ u_input' = doc
        /\ u_parsed' = parse_invoice(fromstring(doc))
    /\ UNCHANGED <<inventory, inv_rows, inv_status, inv_previous, svars, pvars, mvars, ovars>>

(***************************************************************************)
(* The operations of SomexRepository, called in any order on one database  *)
(* file; a process restart builds a new SomexRepository on the file.       *)
(***************************************************************************)
\* values datetime.now() takes in one behaviour of the repository
MaxClock == 4

ItemDatas ==
    {[codigo_item |-> c, referencia |-> "R", descripcion |-> d] :
        c \in {"A", "B"}, d \in {"x", "y"}}

InvoiceItemLists ==
    {<< >>,
     <<[product_name |-> "SAL", quantity_original |-> "2"],
       [product_name |-> "ARROZ", quantity_original |-> "abc"]>>}

\* somex_repository.py:12  SomexRepository(db_path): _init_database on a
\* file that holds the tables already
RepoRestart ==
    /\ db_schema' = db_schema \cup AllTables
    /\ ledger' = init_table(db_schema, "somex_processed_xml", ledger, {})
    /\ t_somex_items' = init_table(db_schema, "somex_items", t_somex_items, {})
    /\ t_processing_logs' =
           init_table(db_schema, "somex_processing_logs", t_processing_logs, << >>)
    /\ t_invoice_items' =
           init_table(db_schema, "somex_invoice_items", t_invoice_items, << >>)
    /\ repo_op' = "init_database"
    /\ UNCHANGED <<clock, excel_files, served, runs, workers, pc, zip_files,
                   zip_idx, xml_files, zip_results, total_results, all_invoices,
                   excel_path, mark_idx, signals, bvars>>
    /\ UNCHANGED <<pvars, mvars, uvars, cvars, gvars>>

\* the tables and variables a call that writes one table leaves alone
RepoFrame ==
    /\ UNCHANGED <<db_schema, excel_files, served, runs, workers, pc, zip_files,
                   zip_idx, xml_files, zip_results, total_results, all_invoices,
                   excel_path, mark_idx, signals, bvars>>
    /\ UNCHANGED <<pvars, mvars, uvars, cvars, gvars>>

\* somex_repository.py:131  mark_xml_processed
RepoMarkXmlProcessed ==
    /\ clock < MaxClock
    /\ \E doc \in XmlDocs :
          ledger' = mark_xml_processed(ledger, clock, doc, 1, 1, "F-100", 1)
    /\ clock' = clock + 1
    /\ repo_op' = "mark_xml_processed"
    /\ UNCHANGED <<t_somex_items, t_processing_logs, t_invoice_items>>
    /\ RepoFrame

\* somex_repository.py:156  save_item
RepoSaveItem ==
    /\ clock < MaxClock
    /\ \E item_data \in ItemDatas : t_somex_items' = save_item(t_somex_items, item_data)
    /\ clock' = clock + 1
    /\ repo_op' = "save_item"
    /\ UNCHANGED <<ledger, t_processing_logs, t_invoice_items>>
    /\ RepoFrame

\* somex_repository.py:196  save_items_bulk
RepoSaveItemsBulk ==
    /\ clock < MaxClock
    /\ \E a \in ItemDatas, b \in ItemDatas :
          t_somex_items' = save_items_bulk(t_somex_items, <<a, b>>)
    /\ clock' = clock + 1
    /\ repo_op' = "save_items_bulk"
    /\ UNCHANGED <<ledger, t_processing_logs, t_invoice_items>>
    /\ RepoFrame

\* somex_repository.py:241  clear_all_items
RepoClearAllItems ==
    /\ t_somex_items' = clear_all_items(t_somex_items)
    /\ repo_op' = "clear_all_items"
    /\ UNCHANGED <<ledger, clock, t_processing_logs, t_invoice_items>>
    /\ RepoFrame

\* somex_repository.py:282  log_processing
RepoLogProcessing ==
    /\ clock < MaxClock
    /\ \E level \in {"INFO", "ERROR"} :
          t_processing_logs' =
              log_processing(t_processing_logs, clock, level, "m", 1)
    /\ clock' = clock + 1
    /\ repo_op' = "log_processing"
    /\ UNCHANGED <<ledger, t_somex_items, t_invoice_items>>
    /\ RepoFrame

\* somex_repository.py:304  save_invoice_items
RepoSaveInvoiceItems ==
    /\ clock < MaxClock
    /\ \E items \in InvoiceItemLists :
          t_invoice_items' =
              save_invoice_items(t_invoice_items, clock, "F-100", 1, 1, items)
    /\ clock' = clock + 1
    /\ repo_op' = "save_invoice_items"
    /\ UNCHANGED <<ledger, t_somex_items, t_processing_logs>>
    /\ RepoFrame

(***************************************************************************)
(* SomexSftpClient.connect (somex_sftp_client.py:31) on a new client, as   *)
(* ProcessingWorker.run and SftpWorker call it.                            *)
(***************************************************************************)
\* the largest max_retries of a call; the worker passes 3
MaxRetries == 3

\* the test of line 116 taken as true on every attempt
wait_before_retry_always(attempt, max_retries) == TRUE

\* somex_sftp_client.py:116  if attempt < max_retries
wait_before_retry(attempt, max_retries) == attempt < max_retries

Returned(success, message) == [success |-> success, message |-> message]

\* somex_sftp_client.py:51-57: the password check and the entry into the loop
SftpConnect ==
    /\ c_pc = "new"
    /\ \E password \in {"", "pw"}, env \in {"", "envpw"}, max_retries \in 0..MaxRetries :
          LET pwd == IF password # "" THEN password ELSE env
          IN  /\ c_max_retries' = max_retries
              /\ c_pwd' = pwd
              /\ IF pwd = ""
                 THEN /\ c_result' = Returned(FALSE, "password")
                      /\ c_pc' = "returned"
                      /\ UNCHANGED <<c_attempt, c_attempts>>
                 ELSE IF max_retries < 1
                 THEN /\ c_result' = Returned(FALSE, "connection")
                      /\ c_pc' = "returned"
                      /\ UNCHANGED <<c_attempt, c_attempts>>
                 ELSE /\ c_pc' = "ssh_connect"
                      /\ c_attempt' = 1
                      /\ c_attempts' = c_attempts + 1
                      /\ UNCHANGED c_result
    /\ UNCHANGED <<c_outcomes, c_sleeps, c_ssh_client, c_sftp_client, c_connected>>
    /\ UNCHANGED <<svars, pvars, mvars, uvars, rvars, gvars>>

\* somex_sftp_client.py:106-119: the handler of an attempt that failed with
\* an error other than AuthenticationException
SftpAttemptFailed ==
    /\ c_outcomes' = Append(c_outcomes, "error")
    /\ IF wait_before_retry(c_attempt, c_max_retries)
       THEN /\ c_pc' = "sleep"
            /\ UNCHANGED c_result
       ELSE /\ c_pc' = "returned"
            /\ c_result' = Returned(FALSE, "connection")

\* somex_sftp_client.py:65-82: SSHClient() and ssh_client.connect
SftpSshConnect ==
    /\ c_pc = "ssh_connect"
    /\ \/ /\ c_ssh_client' = "open"
          /\ c_pc' = "open_sftp"
          /\ UNCHANGED <<c_outcomes, c_result>>
       \/ \* AuthenticationException: no retry (line 100)
          /\ c_ssh_client' = "failed"
          /\ c_outcomes' = Append(c_outcomes, "auth")
          /\ c_result' = Returned(FALSE, "authentication")
          /\ c_pc' = "returned"
       \/ \* SSHException, OSError or another exception
          /\ c_ssh_client' = "failed"
          /\ SftpAttemptFailed
    /\ UNCHANGED <<c_max_retries, c_pwd, c_attempt, c_attempts, c_sleeps,
                   c_sftp_client, c_connected>>
    /\ UNCHANGED <<svars, pvars, mvars, uvars, rvars, gvars>>

\* somex_sftp_client.py:85-98: open_sftp, chdir (an IOError of chdir is only
\* logged), connected = True and the return
SftpOpenSftp ==
    /\ c_pc = "open_sftp"
    /\ \/ \* open_sftp raises
          /\ SftpAttemptFailed
          /\ UNCHANGED <<c_sftp_client, c_connected>>
       \/ \* chdir raises something that is no IOError
          /\ c_sftp_client' = "open"
          /\ SftpAttemptFailed
          /\ UNCHANGED c_connected
       \/ \* chdir succeeds or raises IOError
          /\ c_sftp_client' = "open"
          /\ c_connected' = TRUE
          /\ c_outcomes' = Append(c_outcomes, "success")
          /\ c_result' = Returned(TRUE, "connected")
          /\ c_pc' = "returned"
    /\ UNCHANGED <<c_max_retries, c_pwd, c_attempt, c_attempts, c_sleeps,
                   c_ssh_client>>
    /\ UNCHANGED <<svars, pvars, mvars, uvars, rvars, gvars>>

\* somex_sftp_client.py:117-128: the wait of 2 ** attempt seconds, the old
\* SSH client dropped, and the next iteration of the loop
SftpSleep ==
    /\ c_pc = "sleep"
    /\ c_sleeps' = Append(c_sleeps, 2 ^ c_attempt)
    /\ c_ssh_client' = "none"
    /\ c_sftp_client' = "none"
    /\ c_attempt' = c_attempt + 1
    /\ c_attempts' = c_attempts + 1
    /\ c_pc' = "ssh_connect"
    /\ UNCHANGED <<c_max_retries, c_pwd, c_outcomes, c_result, c_connected>>
    /\ UNCHANGED <<svars, pvars, mvars, uvars, rvars, gvars>>

\* somex_sftp_client.py:412  close, after connect returned
SftpClose ==
    /\ c_pc = "returned"
    /\ c_pc' = "closed"
    /\ c_sftp_client' = IF c_sftp_client = "open" THEN "closed" ELSE c_sftp_client
    /\ c_ssh_client' = IF c_ssh_client # "none" THEN "closed" ELSE c_ssh_client
    /\ c_connected' = FALSE
    /\ UNCHANGED <<c_max_retries, c_pwd, c_attempt, c_attempts, c_outcomes,
                   c_sleeps, c_result>>
    /\ UNCHANGED <<svars, pvars, mvars, uvars, rvars, gvars>>

\* somex_sftp_client.py:14  SomexSftpClient.__init__
SftpInit ==
    /\ c_pc = "new"
    /\ c_max_retries = 0
    /\ c_pwd = ""
    /\ c_attempt = 0
    /\ c_attempts = 0
    /\ c_outcomes = << >>
    /\ c_sleeps = << >>
    /\ c_result = Pending
    /\ c_ssh_client = "none"
    /\ c_sftp_client = "none"
    /\ c_connected = FALSE

(***************************************************************************)
(* MainWindow and the ClientTab of one client (main_window.py,             *)
(* client_tab.py): processing requests, the worker threads they start and  *)
(* the finished signal.  Slots run in the GUI thread, one at a time.       *)
(***************************************************************************)
\* processing requests in one behaviour
MaxRequests == 3

GuiFrame == UNCHANGED <<svars, pvars, mvars, uvars, rvars, cvars>>

\* main_window.py:204  _on_processing_requested, called by the emit of
\* processing_requested: without credentials it warns and returns, else it
\* builds a worker, stores it under the client id and starts it
OnProcessingRequested ==
    /\ g_requests' = g_requests + 1
    /\ IF ~g_credentials
       THEN UNCHANGED <<g_started, g_workers, g_running>>
       ELSE /\ g_started' = g_started + 1
            /\ g_workers' = g_started + 1
            /\ g_running' = g_running \cup {g_started + 1}

\* client_tab.py:181  _on_process_now: the button is disabled and the
\* request emitted
OnProcessNow ==
    /\ ~g_closed
    /\ g_button
    /\ g_requests < MaxRequests
    /\ g_button' = FALSE
    /\ OnProcessingRequested
    /\ UNCHANGED <<g_auto, g_credentials, g_pending, g_closed>>
    /\ GuiFrame

\* client_tab.py:191  _on_auto_mode_changed: the timer is started or stopped
OnAutoModeChanged ==
    /\ ~g_closed
    /\ g_auto' = ~g_auto
    /\ UNCHANGED <<g_button, g_credentials, g_requests, g_started, g_workers,
                   g_running, g_pending, g_closed>>
    /\ GuiFrame

\* client_tab.py:202  _on_auto_process: a tick of the timer emits the request
OnAutoProcess ==
    /\ ~g_closed
    /\ g_auto
    /\ g_requests < MaxRequests
    /\ OnProcessingRequested
    /\ UNCHANGED <<g_button, g_auto, g_credentials, g_pending, g_closed>>
    /\ GuiFrame

\* config_tab.py:273  the user fills in or empties the credentials
EditCredentials ==
    /\ ~g_closed
    /\ g_credentials' = ~g_credentials
    /\ UNCHANGED <<g_button, g_auto, g_requests, g_started, g_workers,
                   g_running, g_pending, g_closed>>
    /\ GuiFrame

\* main_window.py:57  ProcessingWorker.run: it ends by emitting finished,
\* with the result of execute or with an error result
WorkerRun(w) ==
    /\ w \in g_running
    /\ g_running' = g_running \ {w}
    /\ g_pending' = g_pending \cup {w}
    /\ UNCHANGED <<g_button, g_auto, g_credentials, g_requests, g_started,
                   g_workers, g_closed>>
    /\ GuiFrame

\* main_window.py:268  _on_processing_finished, with ClientTab.update_stats:
\* the button is enabled and the entry of the client deleted
OnProcessingFinished(w) ==
    /\ ~g_closed
    /\ w \in g_pending
    /\ g_pending' = g_pending \ {w}
    /\ g_button' = TRUE
    /\ g_workers' = 0
    /\ UNCHANGED <<g_auto, g_credentials, g_requests, g_started, g_running,
                   g_closed>>
    /\ GuiFrame

\* main_window.py:351  closeEvent: worker.wait() for the workers of the
\* dictionary, then the close is accepted
CloseEvent ==
    /\ ~g_closed
    /\ g_workers \notin g_running
    /\ g_closed' = TRUE
    /\ UNCHANGED <<g_button, g_auto, g_credentials, g_requests, g_started,
                   g_workers, g_running, g_pending>>
    /\ GuiFrame

\* main_window.py:85  MainWindow.__init__: the tab with its button enabled,
\* the timer stopped, no worker; the credentials come from the environment
GuiInit ==
    /\ g_button = TRUE
    /\ g_auto = FALSE
    /\ g_requests = 0
    /\ g_started = 0
    /\ g_workers = 0
    /\ g_running = {}
    /\ g_pending = {}
    /\ g_closed = FALSE

\* the database after SomexRepository(db_path) built it (somex_tab.py:338)
RepoInit ==
    /\ db_schema = AllTables
    /\ t_somex_items = {}
    /\ t_processing_logs = << >>
    /\ t_invoice_items = << >>
    /\ repo_op = "init_database"

OtherInit == RepoInit /\ SftpInit /\ GuiInit /\ g_credentials = TRUE

\* a fresh PulgarinInventoryService, no document parsed yet
UblInit ==
    /\ inventory = EmptyInventory
    /\ inv_rows = << >>
    /\ inv_status = "none"
    /\ inv_previous = {}
    /\ u_input = NoInput
    /\ u_parsed = Pending

ParserIdle ==
    /\ p_input = NoInput
    /\ p_parsed = Pending
    /\ p_results = NoResults
    /\ p_number = Pending

MailInit ==
    /\ m_pc = "idle"
    /\ m_runs = 0
    /\ m_email_ids = << >>
    /\ m_idx = 1
    /\ m_processed = {}
    /\ m_attachments = << >>
    /\ m_invoices = << >>
    /\ m_result = NewResult
    /\ m_connected = FALSE
    /\ m_csv = << >>
    /\ m_handled = << >>
    /\ m_failed = {}

WorkerInit ==
    /\ ledger = {}
    /\ clock = 0
    /\ excel_files = << >>
    /\ served = 0
    /\ runs = 0
    /\ pc = [w \in Workers |-> "idle"]
    /\ zip_files = [w \in Workers |-> 0]
    /\ zip_idx = [w \in Workers |-> 1]
    /\ xml_files = [w \in Workers |-> << >>]
    /\ zip_results = [w \in Workers |-> NoResults]
    /\ total_results = [w \in Workers |-> ZeroTotals(0)]
    /\ all_invoices = [w \in Workers |-> << >>]
    /\ excel_path = [w \in Workers |-> 0]
    /\ mark_idx = [w \in Workers |-> 1]
    /\ signals = [w \in Workers |-> << >>]
    /\ sftp_client = [w \in Workers |-> "none"]
    /\ process_btn = [w \in Workers |-> TRUE]
    /\ handled = [w \in Workers |-> 0]

vars == <<svars, pvars, mvars, uvars, ovars>>

\* one worker thread: the tab disables its button while the worker runs
Init ==
    /\ WorkerInit /\ workers = {1}
    /\ ParserIdle /\ MailInit /\ UblInit /\ OtherInit

\* two workers on one database
InitConc ==
    /\ WorkerInit /\ workers = Workers
    /\ ParserIdle /\ MailInit /\ UblInit /\ OtherInit

\* a parser handed one document
InitParse ==
    /\ WorkerInit /\ workers = {}
    /\ p_input \in ParserInputs /\ p_parsed = Pending /\ p_results = NoResults
    /\ p_number = Pending
    /\ MailInit /\ UblInit /\ OtherInit

\* the mail pipeline of one client
InitMail ==
    /\ WorkerInit /\ workers = {}
    /\ ParserIdle /\ MailInit /\ UblInit /\ OtherInit

\* the Standard UBL parser and the inventory of its client
InitUbl ==
    /\ WorkerInit /\ workers = {}
    /\ ParserIdle /\ MailInit /\ UblInit /\ OtherInit

\* the main window after start, with or without credentials in the environment
InitGui ==
    /\ WorkerInit /\ workers = {}
    /\ ParserIdle /\ MailInit /\ UblInit
    /\ RepoInit /\ SftpInit /\ GuiInit /\ g_credentials \in BOOLEAN

\* a new SomexSftpClient
InitSftp ==
    /\ WorkerInit /\ workers = {}
    /\ ParserIdle /\ MailInit /\ UblInit /\ OtherInit

\* a SomexRepository on a new database file
InitRepo ==
    /\ WorkerInit /\ workers = {}
    /\ ParserIdle /\ MailInit /\ UblInit /\ OtherInit

Next ==
    \E w \in Workers :
        \/ Connect(w)
        \/ ProcessZip(w)
        \/ GenerateExcel(w)
        \/ MarkProcessed(w)
        \/ UploadExcel(w)
        \/ Abandon(w)
        \/ OnProcessingComplete(w)
        \/ OnProcessingError(w)

NextParse == ParseXml \/ ParsePdf \/ ParseNumber

NextMail == MailConnect \/ MailProcessEmail \/ MailExport

NextUbl == ImportFromExcel \/ ParseUbl

NextGui ==
    \/ OnProcessNow
    \/ OnAutoModeChanged
    \/ OnAutoProcess
    \/ EditCredentials
    \/ \E w \in 1..MaxRequests : WorkerRun(w)
    \/ \E w \in 1..MaxRequests : OnProcessingFinished(w)
    \/ CloseEvent

NextSftp ==
    \/ SftpConnect
    \/ SftpSshConnect
    \/ SftpOpenSftp
    \/ SftpSleep
    \/ SftpClose

NextRepo ==
    \/ RepoRestart
    \/ RepoMarkXmlProcessed
    \/ RepoSaveItem
    \/ RepoSaveItemsBulk
    \/ RepoClearAllItems
    \/ RepoLogProcessing
    \/ RepoSaveInvoiceItems

Spec == Init /\ [][Next]_vars

SpecConc == InitConc /\ [][Next]_vars

\* the worker thread keeps running and the event loop of the application
\* delivers the queued signals
SpecRun ==
    /\ Init /\ [][Next]_vars
    /\ \A w \in Workers :
          /\ WF_vars(ProcessZip(w)) /\ WF_vars(GenerateExcel(w))
          /\ WF_vars(MarkProcessed(w)) /\ WF_vars(UploadExcel(w))
          /\ WF_vars(OnProcessingComplete(w)) /\ WF_vars(OnProcessingError(w))

SpecParse == InitParse /\ [][NextParse]_vars

SpecMail == InitMail /\ [][NextMail]_vars

\* the Standard UBL parser of a client with an inventory
SpecUbl == InitUbl /\ [][NextUbl]_vars

\* the window with the tab of one client; a worker thread that was started
\* runs to its end, and the GUI thread handles a finished signal that waits
SpecGui ==
    /\ InitGui
    /\ [][NextGui]_vars
    /\ \A w \in 1..MaxRequests :
          WF_vars(WorkerRun(w)) /\ WF_vars(OnProcessingFinished(w))

\* one call of connect on a new SFTP client
SpecSftp == InitSftp /\ [][NextSftp]_vars

\* the repository on its own
SpecRepo == InitRepo /\ [][NextRepo]_vars

(***************************************************************************)
(* Properties.                                                             *)
(***************************************************************************)
Contents(w) == {xml_files[w][i].content : i \in 1..Len(xml_files[w])}

Parses(xml_content) == parse_invoice_xml(fromstring(xml_content)) # None

\* a first run over one ZIP of three parseable entries, two of them
\* byte-identical and the third distinct, has created its Excel, marked and
\* completed
TwoCopiesAndOne(w) ==
    /\ pc[w] = "complete"
    /\ runs = 1
    /\ total_results[w].total_zips = 1
    /\ excel_path[w] # 0
    /\ Len(xml_files[w]) = 3
    /\ Cardinality({d.bytes : d \in Contents(w)}) = 2
    /\ \A d \in Contents(w) : Parses(d)

\* C1: from an empty ledger, one ZIP with two byte-identical invoices and
\* one distinct invoice yields exactly two invoices in the batch's list and
\* two ledger records, the second copy counted as skipped, not processed.
C1_DuplicateInZipSkipped ==
    \A w \in Workers :
        TwoCopiesAndOne(w) =>
            /\ Len(all_invoices[w]) = 2
            /\ Cardinality(ledger) = 2
            /\ zip_results[w].skipped_xmls = 1
            /\ zip_results[w].processed_xmls = 2

Holds(w, xml_content) ==
    \E i \in 1..Len(all_invoices[w]) :
        all_invoices[w][i].xml_content.bytes = xml_content.bytes

\* C2: check and mark of one content hash are atomic between workers: two
\* workers running at the same time never both find a byte-identical
\* document unprocessed and both write an invoice for it to their Excel.
C2_CheckThenMarkAtomic ==
    ~ \E d \in XmlDocs :
        \A w \in Workers :
            /\ ~Idle(w)
            /\ excel_path[w] # 0
            /\ Holds(w, d)

\* worker w is at a call of mark_xml_processed in this step
MarkStep(w) ==
    /\ pc[w] = "mark"
    /\ mark_idx'[w] = mark_idx[w] + 1

\* C3: is_xml_processed(b) is true exactly when an earlier
\* mark_xml_processed call carried byte-identical content, whatever the
\* filename, zip_filename, invoice_number and excel_file of the calls.
C3_ProcessedIffMarked ==
    /\ \A d \in XmlDocs : ~is_xml_processed(ledger, d)
    /\ [][\A d \in XmlDocs :
            is_xml_processed(ledger', d) <=>
                \/ is_xml_processed(ledger, d)
                \/ \E w \in Workers :
                      /\ MarkStep(w)
                      /\ all_invoices[w][mark_idx[w]].xml_content.bytes = d.bytes]_vars

RecordOf(xml_content) ==
    {r \in ledger : r.xml_hash = get_xml_hash(xml_content.bytes)}

\* in a second run a document marked by the first comes under another
\* filename and is found processed, while its re-export, one byte longer, is
\* found unprocessed
C3_Witness ==
    \E w \in Workers :
        /\ pc[w] = "excel"
        /\ runs = 2
        /\ \E i, j \in 1..Len(xml_files[w]) :
              /\ xml_files[w][i].content = DocA
              /\ is_xml_processed(ledger, DocA)
              /\ \A r \in RecordOf(DocA) : r.filename # i
              /\ xml_files[w][j].content = DocARe
              /\ ~is_xml_processed(ledger, DocARe)
              /\ Holds(w, DocARe)
              /\ ~Holds(w, DocA)

\* C4: the ledger holds at most one record per content hash, and a record,
\* once created, is never changed or removed: a mark_xml_processed call for
\* recorded content leaves filename, zip_filename, processed_at,
\* invoice_number and excel_file of the record as they were.
C4_OneRecordPerHash ==
    /\ [](\A r1, r2 \in ledger : r1.xml_hash = r2.xml_hash => r1 = r2)
    /\ [][ledger \subseteq ledger']_vars

\* mark_xml_processed was called twice for one content, under two
\* filenames, and the record carries the first
C4_Witness ==
    \E w \in Workers :
        /\ pc[w] \in {"mark", "upload"}
        /\ \E i, j \in 1..(mark_idx[w] - 1) :
              /\ i < j
              /\ all_invoices[w][i].xml_content = all_invoices[w][j].xml_content
              /\ all_invoices[w][i].xml_filename # all_invoices[w][j].xml_filename
              /\ \E r \in RecordOf(all_invoices[w][j].xml_content) :
                    r.filename = all_invoices[w][i].xml_filename

\* the rows of file excel_file hold item number i of invoice inv
RowWritten(excel_file, invoice_number, item) ==
    \E k \in 1..Len(excel_files[excel_file]) :
        /\ excel_files[excel_file][k].invoice_number = invoice_number
        /\ excel_files[excel_file][k].product_name = item.product_name
        /\ excel_files[excel_file][k].quantity_original = item.quantity_original
        /\ excel_files[excel_file][k].quantity = item.quantity_adjusted

\* C5: in every state, also after a run was abandoned or failed, every
\* document of the ledger has had its invoice written to a consolidated
\* Excel that was created: none is marked before its invoice was emitted.
C5_MarkedAfterExcel ==
    \A r \in ledger :
        /\ r.excel_file \in 1..Len(excel_files)
        /\ \A d \in XmlDocs :
              get_xml_hash(d.bytes) = r.xml_hash =>
                  /\ Parses(d)
                  /\ LET inv == parse_invoice_xml(fromstring(d))
                     IN  /\ inv.invoice_number = r.invoice_number
                         /\ \A i \in 1..Len(inv.items) :
                               RowWritten(r.excel_file, r.invoice_number, inv.items[i])

\* the first run was abandoned while it marked: DocA is recorded, its row
\* is in the Excel
C5_Witness ==
    \E w \in Workers :
        /\ pc[w] = "abandoned"
        /\ runs = 1
        /\ Len(excel_files) = 1
        /\ is_xml_processed(ledger, DocA)
        /\ Cardinality(ledger) = 1

\* the invoices of worker w that are not marked yet when it stops
Unmarked(w) ==
    IF pc[w] = "mark" THEN mark_idx[w]..Len(all_invoices[w])
    ELSE IF pc[w] \in {"zips", "excel"} THEN 1..Len(all_invoices[w])
    ELSE {}

\* the run of worker w ends in this step without finishing its marking:
\* it is abandoned, or the Excel could not be created
StopsUnmarked(w) ==
    \/ pc[w] \in {"zips", "excel", "mark"} /\ pc'[w] = "abandoned"
    \/ pc[w] = "excel" /\ pc'[w] = "complete" /\ all_invoices[w] # << >>

\* C6: a document in flight or not started when its batch is abandoned, or
\* whose batch failed before the marking step, is absent from the ledger,
\* so the next run finds is_xml_processed false for it and emits it again.
C6_UnmarkedRetried ==
    [][\A w \in Workers :
          StopsUnmarked(w) =>
              \A i \in Unmarked(w) :
                  ~is_xml_processed(ledger', all_invoices[w][i].xml_content)]_vars

Fresh(w, i) == ~is_xml_processed(ledger, xml_files[w][i].content)

\* C7: in process_zip_file a document that fails to parse is counted in
\* failed_xmls and skipped, and every well-formed, not yet processed
\* document of the ZIP yields an invoice, whatever malformed documents
\* precede or follow it.
C7_MalformedDoesNotStopZip ==
    \A w \in Workers :
        (pc[w] \in {"zips", "excel"} /\ xml_files[w] # << >>) =>
            /\ zip_results[w].failed_xmls =
                  Cardinality({i \in 1..Len(xml_files[w]) :
                                  Fresh(w, i) /\ ~Parses(xml_files[w][i].content)})
            /\ \A i \in 1..Len(xml_files[w]) :
                  (Fresh(w, i) /\ Parses(xml_files[w][i].content)) =>
                      \E j \in 1..Len(zip_results[w].invoices) :
                          /\ zip_results[w].invoices[j].xml_filename = i
                          /\ zip_results[w].invoices[j].xml_content = xml_files[w][i].content

\* a ZIP of a malformed document between two well-formed ones: one failure,
\* both invoices
C7_Witness ==
    \E w \in Workers :
        /\ pc[w] = "excel"
        /\ Len(xml_files[w]) = 3
        /\ xml_files[w][1].content = DocB
        /\ xml_files[w][2].content = DocM
        /\ xml_files[w][3].content = DocA
        /\ zip_results[w].failed_xmls = 1
        /\ Len(zip_results[w].invoices) = 2

\* C8: in the mail pipeline a malformed XML in a ZIP attachment does not
\* keep the other XML documents of that ZIP from being processed: every
\* well-formed XML of the archive yields an invoice in the run's list.
C8_MailZipAllXmlsParsed ==
    (m_pc \in {"emails", "export"}) =>
        \A a \in 1..Len(m_attachments) :
            (m_attachments[a].kind = "zip" /\ m_attachments[a].opens) =>
                \A i \in 1..Len(m_attachments[a].xmls) :
                    LET d == m_attachments[a].xmls[i]
                    IN  parse_invoice(fromstring(d)) # Raised =>
                            \E k \in 1..Len(m_invoices) :
                                m_invoices[k].invoice_number = get_text(d.xml.firstId)

\* the tree the Somex parser reads the invoice from, None if there is none
InvoiceOf(xml) ==
    IF xml.root = "Invoice" THEN xml
    ELSE IF xml.root = "AttachedDocument" THEN extract_embedded_invoice(xml)
    ELSE None

\* Decimal raises on one of the numeric texts of the line
LineFails(line) ==
    \E t \in {line.quantity, line.taxable, line.percent} :
        t \notin {NoElem, "", " "} /\ t \notin DOMAIN DecimalTable

\* C9: a document whose header parses but which has no invoice lines, or
\* whose lines all fail to parse, is returned by parse_invoice_xml as an
\* invoice with an empty items list, and process_zip_file appends it to the
\* invoices and counts it as processed, not as failed.
C9_EmptyItemsSurfaced ==
    (p_input.kind = "xml" /\ p_parsed # Pending /\ InvoiceOf(p_input.doc.xml) # None) =>
        LET tree == InvoiceOf(p_input.doc.xml)
        IN  (\A i \in 1..Len(tree.lines) : LineFails(tree.lines[i])) =>
                /\ p_parsed # None
                /\ p_parsed.items = << >>
                /\ p_results.processed_xmls = 1
                /\ p_results.failed_xmls = 0
                /\ Len(p_results.invoices) = 1
                /\ p_results.invoices[1].items = << >>

\* an invoice of two lines, both with a quantity that is no number
C9_Witness ==
    /\ p_input.kind = "xml"
    /\ p_parsed # Pending
    /\ p_input.doc.xml.root = "Invoice"
    /\ Len(p_input.doc.xml.lines) = 2
    /\ \A i \in 1..2 : p_input.doc.xml.lines[i].quantity = "abc"
    /\ p_parsed # None
    /\ p_parsed.items = << >>
    /\ Len(p_results.invoices) = 1

\* C10: whenever parse_invoice_xml or parse_invoice_pdf returns an invoice
\* rather than a failure, its invoice_number is non-empty.
C10_InvoiceNumberNonEmpty ==
    (p_parsed # Pending /\ p_parsed # None) => p_parsed.invoice_number # ""

\* the document handed to the Standard UBL parser is a well-formed Invoice
UblInvoiceParsed ==
    /\ u_parsed # Pending
    /\ u_input.xml.root = "Invoice"

\* C11: for every well-formed Standard-UBL invoice whose top-level ID
\* element is non-empty, parse_invoice returns an Invoice, it does not
\* raise, and the invoice_number of that Invoice is non-empty.
C11_UblParseTotal ==
    (UblInvoiceParsed /\ get_text(u_input.xml.topId) # "") =>
        /\ u_parsed # Raised
        /\ u_parsed.invoice_number # ""

\* the Description of an envelope does not carry an invoice: it is missing
\* or empty, or its text does not begin with an XML prolog or an open tag,
\* or does not hold the token "Invoice"
BadDescription(d) ==
    \/ ~d.present
    \/ d.empty
    \/ d.starts \notin {"<?xml", "<"}
    \/ ~d.hasInvoice

\* C12: for an AttachedDocument whose Description is missing or empty, or
\* whose unwrapped text does not begin with an XML prolog or open tag, or
\* does not contain the token "Invoice", parsing fails and no invoice is
\* produced; the envelope itself is never parsed as if it were the invoice.
C12_BadEnvelopeFails ==
    (/\ u_parsed # Pending
     /\ u_input.xml.root = "AttachedDocument"
     /\ BadDescription(u_input.xml.description)) =>
        u_parsed = Raised

\* the Description of an envelope carries an Invoice document
CarriesInvoice(d) ==
    /\ d.present
    /\ ~d.empty
    /\ d.tree.root = "Invoice"

\* C13: parsing an AttachedDocument whose Description carries an Invoice
\* document d, as CDATA or as escaped text, yields the same invoice, header
\* fields and items, as parsing d submitted directly.
C13_WrapUnwrapSame ==
    (/\ p_input.kind = "xml"
     /\ p_parsed # Pending
     /\ p_input.doc.xml.root = "AttachedDocument"
     /\ CarriesInvoice(p_input.doc.xml.description)) =>
        p_parsed = parse_invoice_xml(p_input.doc.xml.description.tree)

\* the Somex parser returned an invoice for the document it was handed
SomexParsed ==
    /\ p_input.kind = "xml"
    /\ p_parsed # Pending
    /\ p_parsed # None

\* the lines of the invoice the Somex parser read
SomexLines == InvoiceOf(p_input.doc.xml).lines

\* the place in the items of line i: the lines before it that failed to
\* parse have no item
ItemIndex(lines, i) == Cardinality({j \in 1..i : ~LineFails(lines[j])})

\* the quantity as the InvoicedQuantity element states it
LiteralQuantity(line) ==
    IF get_text(line.quantity) = "" THEN 0 ELSE DecimalTable[get_text(line.quantity)]

\* C14: for every Somex UBL line item, if the product name matches the
\* pattern "X <number> KILO" the effective quantity is quantity_original
\* multiplied by the matched number, whatever the number, 0 included; if the
\* name does not match, the effective quantity is quantity_original.
C14_QuantityScaledByKilos ==
    SomexParsed =>
        \A i \in 1..Len(SomexLines) :
            ~LineFails(SomexLines[i]) =>
                LET item == p_parsed.items[ItemIndex(SomexLines, i)]
                    m == KilosPattern(item.product_name)
                IN  item.quantity =
                        IF m # NoMatch
                        THEN LiteralQuantity(SomexLines[i]) * DecimalTable[m]
                        ELSE LiteralQuantity(SomexLines[i])

\* the tree the Standard UBL parser reads the invoice from
UblRead(xml) ==
    IF /\ xml.root = "AttachedDocument"
       /\ xml.description.present
       /\ ~xml.description.empty
    THEN xml.description.tree
    ELSE xml

\* C15: every invoice item a parsing strategy produces carries both
\* quantity and quantity_original, and quantity_original is the quantity
\* literally read from the source document.
C15_BothQuantitiesKept ==
    (u_parsed # Pending /\ u_parsed # Raised) =>
        \A i \in 1..Len(u_parsed.items) :
            /\ {"quantity", "quantity_original"} \subseteq DOMAIN u_parsed.items[i]
            /\ u_parsed.items[i].quantity_original =
                   LiteralQuantity(UblRead(u_input.xml).lines[i])

\* the taxable amount as the TaxSubtotal/TaxableAmount element states it
LiteralTaxable(line) ==
    IF get_text(line.taxable) = "" THEN 0 ELSE DecimalTable[get_text(line.taxable)]

\* the Decimal d is the quotient a / b
IsQuotient(d, a, b) == d.num * b = a * d.den /\ d.den # 0

\* C16: for every Somex UBL line item, unit_price is taxable_amount divided
\* by the adjusted quantity when the adjusted quantity is positive, and 0
\* when it is zero or negative; the Price/PriceAmount of the document is
\* never used.
C16_UnitPriceDerived ==
    SomexParsed =>
        \A i \in 1..Len(SomexLines) :
            ~LineFails(SomexLines[i]) =>
                LET item == p_parsed.items[ItemIndex(SomexLines, i)]
                IN  IF item.quantity_adjusted > 0
                    THEN IsQuotient(item.unit_price,
                             LiteralTaxable(SomexLines[i]), item.quantity_adjusted)
                    ELSE IsQuotient(item.unit_price, 0, 1)

\* an invoice of two lines: taxable amount 100000 over 40 kilos gives 2500,
\* and a negative quantity gives 0
C16_Witness ==
    /\ SomexParsed
    /\ Len(p_parsed.items) = 2
    /\ p_parsed.items[1].taxable_amount = 100000
    /\ p_parsed.items[1].quantity_adjusted = 40
    /\ IsQuotient(p_parsed.items[1].unit_price, 2500, 1)
    /\ p_parsed.items[2].taxable_amount = 100000
    /\ p_parsed.items[2].quantity_adjusted < 0
    /\ IsQuotient(p_parsed.items[2].unit_price, 0, 1)

\* the number a numeric text stands for, 0 for a text that is no number
NumberOrZero(t) ==
    IF get_text(t) \in DOMAIN DecimalTable THEN DecimalTable[get_text(t)] ELSE 0

\* C17: when a decimal or quantity field of a line cannot be parsed as a
\* number, zero is substituted for it, the item is still emitted, and the
\* remaining lines and the invoice continue to be processed: neither the
\* item nor the invoice is dropped.
C17_UnparsableNumberIsZero ==
    (/\ p_input.kind = "xml"
     /\ p_parsed # Pending
     /\ InvoiceOf(p_input.doc.xml) # None) =>
        /\ p_parsed # None
        /\ Len(p_parsed.items) = Len(SomexLines)
        /\ \A i \in 1..Len(SomexLines) :
              /\ p_parsed.items[i].quantity_original = NumberOrZero(SomexLines[i].quantity)
              /\ p_parsed.items[i].taxable_amount = NumberOrZero(SomexLines[i].taxable)

\* the text of the cell without "$" and spaces, and its digits
Cleaned(t) == SelectSeq(t, LAMBDA c : c \notin {"$", " "})
DigitsOf(t) == SelectSeq(t, LAMBDA c : c \in Digits)

\* the separators of a text, in order
Separators(t) == SelectSeq(t, LAMBDA c : c \in {".", ","})

\* the digits that follow the last separator of a text
DigitsAfterLastSeparator(t) ==
    Cardinality({i \in 1..Len(t) :
                    /\ t[i] \in Digits
                    /\ \E j \in 1..(i - 1) : t[j] \in {".", ","}
                    /\ \A j \in (i + 1)..Len(t) : t[j] \in Digits})

\* the last separator of the text is its decimal point: it is the only
\* separator and at most 2 digits follow it, or both kinds occur and it is
\* the only one of its kind
LastIsDecimalPoint(t) ==
    LET seps == Separators(t)
        kinds == {seps[i] : i \in 1..Len(seps)}
    IN  \/ Len(seps) = 1 /\ DigitsAfterLastSeparator(t) <= 2
        \/ /\ Cardinality(kinds) = 2
           /\ Count(seps, seps[Len(seps)]) = 1

\* the number the rule gives: the digits of the text, divided so that the
\* digits after the decimal point are decimals
RuleNumber(t) ==
    [num |-> DigitsValue(DigitsOf(t)),
     den |-> IF Separators(t) # << >> /\ LastIsDecimalPoint(t)
             THEN Pow10(DigitsAfterLastSeparator(t))
             ELSE 1]

\* the rule gives a number for the text: it has a digit, and when both
\* kinds of separator occur the kind that occurs last occurs once
RuleApplies(t) ==
    LET seps == Separators(t)
        kinds == {seps[i] : i \in 1..Len(seps)}
    IN  /\ DigitsOf(t) # << >>
        /\ Cardinality(kinds) = 2 => Count(seps, seps[Len(seps)]) = 1

SameNumber(a, b) == a.num * b.den = b.num * a.den

\* C18: for a text of digits, dots, commas, "$" and spaces
\* _parse_colombian_number returns the plain number when there is no
\* separator; with one kind of separator, that separator is the decimal
\* point iff it occurs once and at most 2 digits follow it, otherwise every
\* occurrence is a thousands separator; with both kinds, the kind occurring
\* last is the decimal point and the other is stripped.  "9.778.875" and
\* "9,778,875" give 9778875, "9.778,87" and "9,778.87" give 9778.87,
\* "$ 1.234,50" gives 1234.50.
C18_ColombianNumber ==
    (p_input.kind = "number" /\ p_number # Pending) =>
        LET t == Cleaned(p_input.doc.text)
        IN  /\ RuleApplies(t) => SameNumber(p_number, RuleNumber(t))
            /\ t \in {<<"9", ".", "7", "7", "8", ".", "8", "7", "5">>,
                      <<"9", ",", "7", "7", "8", ",", "8", "7", "5">>} =>
                   SameNumber(p_number, [num |-> 9778875, den |-> 1])
            /\ t \in {<<"9", ".", "7", "7", "8", ",", "8", "7">>,
                      <<"9", ",", "7", "7", "8", ".", "8", "7">>} =>
                   SameNumber(p_number, [num |-> 977887, den |-> 100])
            /\ t = <<"1", ".", "2", "3", "4", ",", "5", "0">> =>
                   SameNumber(p_number, [num |-> 123450, den |-> 100])

\* "$ 1.234,50" was parsed, and gave 1234.50
C18_Witness ==
    /\ p_input.kind = "number"
    /\ p_input.doc.text = <<"$", " ", "1", ".", "2", "3", "4", ",", "5", "0">>
    /\ p_number # Pending
    /\ SameNumber(p_number, [num |-> 123450, den |-> 100])
    /\ p_number.den = 100

\* C19: for a Standard-UBL line, when the inventory has an entry for the
\* normalized product name, the weight of the item is the inventory weight
\* and its unit_of_measure is the unit of the inventory entry whenever the
\* entry has one; the weight of the XML is used only when the inventory
\* lookup yields no weight.
C19_InventoryWeightAndUnit ==
    (u_parsed # Pending /\ u_parsed # Raised) =>
        \A i \in 1..Len(u_parsed.items) :
            LET item == u_parsed.items[i]
                line == UblRead(u_input.xml).lines[i]
                entry == find_by_description(item.product_name)
            IN  entry # None =>
                    /\ entry.peso # None => item.weight = entry.peso
                    /\ entry.peso = None => item.weight = xml_weight(line)
                    /\ entry.unidad_medida # "" =>
                           item.unit_of_measure = entry.unidad_medida

\* the rows of the imported file that have a description
DescribedRows == {i \in 1..Len(inv_rows) : Strip(inv_rows[i].descripcion) # ""}

\* the trimmed, lower-cased form of a text
Normalized(t) == Lower(Strip(t))

RuleName(party) ==
    IF party.partyName # NoElem THEN get_text(party.partyName)
    ELSE get_text(party.registrationName)

\* C21: in Standard-UBL parsing the NIT of the seller and of the buyer are
\* both the text of PartyTaxScheme/CompanyID, and their names the text of
\* PartyName/Name, with PartyLegalEntity/RegistrationName used only when
\* PartyName/Name is absent; seller and buyer follow the same precedence.
C21_PartySourcePrecedence ==
    (u_parsed # Pending /\ u_parsed # Raised) =>
        LET tree == UblRead(u_input.xml)
        IN  /\ tree.seller.present =>
                  /\ u_parsed.seller_nit = get_text(tree.seller.companyId)
                  /\ u_parsed.seller_name = RuleName(tree.seller)
            /\ tree.buyer.present =>
                  /\ u_parsed.buyer_nit = get_text(tree.buyer.companyId)
                  /\ u_parsed.buyer_name = RuleName(tree.buyer)
            /\ (tree.seller.present /\ tree.seller = tree.buyer) =>
                  /\ u_parsed.seller_nit = u_parsed.buyer_nit
                  /\ u_parsed.seller_name = u_parsed.buyer_name
\* the content hashes table somex_processed_xml records
RecordedHashes(led) == {r.xml_hash : r \in led}

\* C22: ledger records are never removed: a new SomexRepository on the same
\* database (which runs _init_database again), clear_all_items, save_item,
\* save_items_bulk, save_invoice_items and log_processing leave the set of
\* recorded content hashes as it was, and once is_xml_processed(b) is true
\* it stays true under every operation.
C22_LedgerDurable ==
    [][/\ repo_op' # "mark_xml_processed" =>
              RecordedHashes(ledger') = RecordedHashes(ledger)
       /\ \A b \in XmlDocs :
              is_xml_processed(ledger, b) => is_xml_processed(ledger', b)]_vars

\* a restart of the process found a recorded hash and rows in the other
\* tables, and the hash is still recorded
C22_Witness ==
    /\ repo_op = "init_database"
    /\ is_xml_processed(ledger, DocA)
    /\ is_xml_processed(ledger, DocM)
    /\ t_somex_items # {}
    /\ t_processing_logs # << >>
\* the waits of a call that made n attempts so far: 2, 4, ..., 2^(n-1)
WaitsBetween(n) == [i \in 1..(n - 1) |-> 2 ^ i]

\* C23: connect makes at most max_retries attempts and stops at the first
\* success; it returns success and sets connected exactly when an attempt
\* succeeded; an authentication failure ends the call at once with a failure
\* result and no further attempt; the wait of 2^attempt seconds happens only
\* between two attempts, never after the last one.
C23_ConnectRetries ==
    LET ended == c_pc \in {"returned", "closed"}
        n == Len(c_outcomes)
    IN  /\ c_attempts <= c_max_retries
        /\ \A i \in 1..n : c_outcomes[i] \in {"success", "auth"} => (i = n /\ ended)
        /\ ended =>
              /\ c_result # Pending
              /\ c_result.success <=> (n > 0 /\ c_outcomes[n] = "success")
              /\ n = c_attempts
        /\ c_pc = "returned" => (c_connected <=> c_result.success)
        /\ ~ended => ~c_connected
        /\ (n > 0 /\ c_outcomes[n] = "auth") => (ended /\ ~c_result.success)
        /\ c_attempts > 0 => c_sleeps = WaitsBetween(c_attempts)
        /\ c_attempts = 0 => c_sleeps = << >>

\* the third of three attempts succeeded, after waits of 2 and 4 seconds
C23_Witness ==
    /\ c_pc = "returned"
    /\ c_max_retries = 3
    /\ c_outcomes = <<"error", "error", "success">>
    /\ c_sleeps = <<2, 4>>
    /\ c_result = Returned(TRUE, "connected")
    /\ c_connected
\* the email was marked processed by an earlier call of execute
MarkedBefore(email_id) ==
    \E r \in m_processed : r.email_id = email_id /\ r.processed_at < m_runs

RaisedAt(i) == m_handled[i].how \in {"fetch_raised", "extract_raised"}

C25_MarkedAfterExport ==
    m_pc = "returned" =>
        \A i \in 1..Len(m_handled) :
            (m_handled[i].how = "marked" /\ m_handled[i].invoices # << >>) =>
                \E k \in 1..Len(m_csv) :
                    \A j \in 1..Len(m_handled[i].invoices) :
                        \E l \in 1..Len(m_csv[k]) :
                            m_csv[k][l] = m_handled[i].invoices[j]

\* C26: every call of execute that connected to the mail server has called
\* disconnect when it returns, on every path.
C26_DisconnectOnEveryPath ==
    m_pc = "returned" => ~m_connected
\* C27: at most one processing worker of the client is running at any time:
\* a request, from the button or from a tick of the timer, starts no second
\* worker while an earlier one is running; and when closeEvent has accepted
\* the close, it has waited for every worker that was running.
C27_OneWorkerPerClient ==
    /\ Cardinality(g_running) <= 1
    /\ g_closed => g_running = {}

\* C28: after 'Procesar Ahora' has disabled the process button, the button
\* is enabled again at some later time, on every path of the request, as
\* long as the window is not closed.
C28_ButtonReenabled ==
    []((~g_button /\ ~g_closed) => <>(g_button \/ g_closed))

\* the run of worker w has returned
Returned29(w) == pc[w] \in {"complete", "error"}

\* a run is under way or its signal is still queued
RunStarted(w) == w \in workers /\ ~process_btn[w]

\* C29: every run of the ProcessingWorker that returns has emitted exactly
\* one terminal signal, processing_complete or error_occurred, and has
\* closed the SFTP client; a run that has not returned has emitted none;
\* and the button that the click disabled is enabled again after the run.
C29_OneTerminalSignal ==
    /\ [](\A w \in workers :
            /\ Returned29(w) =>
                  /\ Len(signals[w]) = 1
                  /\ signals[w][1] \in {"processing_complete", "error_occurred"}
                  /\ sftp_client[w] = "closed"
            /\ pc[w] \in {"zips", "excel", "mark", "upload"} =>
                  signals[w] = << >> /\ ~process_btn[w]
            /\ handled[w] <= Len(signals[w]))
    /\ \A w \in Workers : RunStarted(w) ~> process_btn[w]

\* a run that failed to upload or uploaded its Excel file has returned: two
\* documents marked, processing_complete handled by the tab
C29_Witness ==
    \E w \in workers :
        /\ pc[w] = "complete"
        /\ mark_idx[w] = 3
        /\ signals[w] = <<"processing_complete">>
        /\ handled[w] = 1
        /\ process_btn[w]
        /\ sftp_client[w] = "closed"

\* the counters of a result add up
CountersAddUp(r) ==
    r.total_xmls = r.processed_xmls + r.skipped_xmls + r.failed_xmls

\* C30: whenever process_zip_file returns, total_xmls = processed_xmls +
\* skipped_xmls + failed_xmls and processed_xmls is the number of invoices
\* of the result; in the totals the worker accumulates the same sum holds
\* over all ZIP files and processed_zips never exceeds total_zips.
C30_CountersAddUp ==
    \A w \in workers :
        /\ CountersAddUp(zip_results[w])
        /\ zip_results[w].processed_xmls = Len(zip_results[w].invoices)
        /\ CountersAddUp(total_results[w])
        /\ total_results[w].processed_zips <= total_results[w].total_zips

\* the second ZIP file of a run held a document already in the ledger and
\* one that does not parse; the first ZIP file could not be processed
C30_Witness ==
    \E w \in workers :
        /\ zip_results[w].skipped_xmls = 1
        /\ zip_results[w].failed_xmls = 1
        /\ total_results[w].total_zips = 2
        /\ total_results[w].processed_zips = 1
        /\ zip_idx[w] = 3
====
